---- MODULE Spec2Model ----
(***************************************************************************)
(* Model of mfridman/cli: Parse (command-path discovery, flag-set          *)
(* composition, xflag.ParseToEnd over the tokens before "--", required     *)
(* flag check, leftover arguments) and GetFlag.                            *)
(*                                                                         *)
(* Strings are sequences of one-character strings, so that prefix tests,   *)
(* case folding and the flag grammar are computed character by character.  *)
(***************************************************************************)
EXTENDS Integers, Sequences, FiniteSets, TLC

VARIABLES
    sc,           \* the scenario: which command tree and which token vocabulary
    cells,        \* value cell of every declared flag: <<node, name>> -> value
    nilFlags,     \* the nodes whose Command.Flags is nil
    hasState,     \* root.state # nil
    commandPath,  \* root.state.commandPath (sequence of node ids)
    Args,         \* root.state.Args
    err,          \* what the last Parse call returned
    args,         \* the args of the last Parse call
    prev,         \* the state of the root before the last Parse call
    ghost,        \* roles the last Parse call gave to the tokens: used (the
                  \* indices that named a child), units (the flags parsed),
                  \* parsed (combinedFlags.Args()), formal (the names of
                  \* combinedFlags), ran (the last pass entered)
    budget,       \* Parse calls left in this behaviour
    maxLen,       \* longest args of a call in this behaviour
    got,          \* the last GetFlag call on the state of the root: op, name,
                  \* want (the type asked for), out (what it found) and msg
                  \* (the message of its panic)
    sg,           \* a call of pkg/suggest: op (the function called, "none"
                  \* before the call), its arguments target, candidates,
                  \* maxResults and b, and what it returned: result or score
    selected,     \* root.selected of src/parse.go and src/run.go (a node id)
    states,       \* Command.state of every node, as src/parse.go and
                  \* src/run.go keep it: made (state # nil), Args, Stdin,
                  \* Stdout, Stderr
    ran           \* the last Run or ParseAndRun call: op, options, exec (the
                  \* node whose Exec it called), saw (the streams of the
                  \* State the Exec got) and err (what it returned)

vars == <<sc, cells, nilFlags, hasState, commandPath, Args, err, args,
          prev, ghost, budget, maxLen, got, sg, selected, states, ran>>

(***************************************************************************)
(* Bounds                                                                  *)
(***************************************************************************)
MaxArgs == 4
MaxSeqArgs == 2
MaxCalls == 2
MaxCandidates == 3
MaxResults == 2
MaxGetArgs == 3

(***************************************************************************)
(* Strings                                                                 *)
(***************************************************************************)
UpperCase == <<"A","B","C","D","E","F","G","H","I","J","K","L","M",
               "N","O","P","Q","R","S","T","U","V","W","X","Y","Z">>
LowerCase == <<"a","b","c","d","e","f","g","h","i","j","k","l","m",
               "n","o","p","q","r","s","t","u","v","w","x","y","z">>

ToLowerChar(c) ==
    IF \E i \in 1..26 : UpperCase[i] = c
    THEN LowerCase[CHOOSE i \in 1..26 : UpperCase[i] = c]
    ELSE c

ToLower(s) == [i \in 1..Len(s) |-> ToLowerChar(s[i])]

\* strings.EqualFold on the ASCII strings of the model
EqualFold(a, b) == ToLower(a) = ToLower(b)

\* strings.HasPrefix
HasPrefix(s, p) == Len(s) >= Len(p) /\ SubSeq(s, 1, Len(p)) = p

\* strings.Contains(s, " ")
ContainsSpace(s) == \E i \in 1..Len(s) : s[i] = " "

\* the digits and letters in the order of their bytes; strings are compared
\* byte by byte
ByteOrder == <<"0","1","2","3","4","5","6","7","8","9">> \o UpperCase \o LowerCase
Byte(c) == CHOOSE i \in 1..Len(ByteOrder) : ByteOrder[i] = c

\* a < b for two strings
RECURSIVE StringLess(_, _)
StringLess(a, b) ==
    IF Len(b) = 0 THEN FALSE
    ELSE IF Len(a) = 0 THEN TRUE
    ELSE IF a[1] = b[1] THEN StringLess(Tail(a), Tail(b))
    ELSE Byte(a[1]) < Byte(b[1])

(***************************************************************************)
(* Similarity of two strings (pkg/suggest and command.go hold the same     *)
(* code).  A score is the rational num/den; the float64 scores of strings  *)
(* of the lengths of the model compare as these rationals do.              *)
(***************************************************************************)
Score(num, den) == [num |-> num, den |-> den]
ScoreGreater(s, t) == s.num * t.den > t.num * s.den
ScoreEqual(s, t) == s.num * t.den = t.num * s.den

\* const threshold = 0.5
threshold == Score(1, 2)

Min(x, y) == IF x <= y THEN x ELSE y
Max(x, y) == IF x >= y THEN x ELSE y

\* a row of the matrix made of deletions and insertions only
RECURSIVE levenshteinRowNoSubstitution(_, _, _, _, _)
levenshteinRowNoSubstitution(a, b, i, above, row) ==
    IF Len(row) = Len(b) + 1 THEN row
    ELSE levenshteinRowNoSubstitution(a, b, i, above,
           Append(row,
                  Min(above[Len(row) + 1] + 1,
                      Min(row[Len(row)] + 1,
                          above[Len(row)] + (IF a[i] = b[Len(row)] THEN 0 ELSE 2)))))

\* row i of the matrix of levenshteinDistance, from the row above it; row
\* holds the columns 0..Len(row)-1 so far
RECURSIVE levenshteinRow(_, _, _, _, _)
levenshteinRow(a, b, i, above, row) ==
    IF Len(row) = Len(b) + 1 THEN row
    ELSE levenshteinRow(a, b, i, above,
           Append(row,
                  Min(above[Len(row) + 1] + 1,
                      Min(row[Len(row)] + 1,
                          above[Len(row)] + (IF a[i] = b[Len(row)] THEN 0 ELSE 1)))))

RECURSIVE levenshteinRows(_, _, _, _)
levenshteinRows(a, b, i, above) ==
    IF i > Len(a) THEN above[Len(b) + 1]
    ELSE levenshteinRows(a, b, i + 1, levenshteinRow(a, b, i, above, <<i>>))

levenshteinDistance(a, b) ==
    IF Len(a) = 0 THEN Len(b)
    ELSE IF Len(b) = 0 THEN Len(a)
    ELSE levenshteinRows(a, b, 1, [j \in 1..(Len(b) + 1) |-> j - 1])

\* a similarity that gives the prefix bonus whichever of the two strings is
\* the prefix of the other
similarityEitherPrefix(a, b) ==
    IF a = b THEN Score(1, 1)
    ELSE IF HasPrefix(b, a) \/ HasPrefix(a, b) THEN Score(9, 10)
    ELSE Score(Max(Len(a), Len(b)) - levenshteinDistance(a, b), Max(Len(a), Len(b)))

\* calculateSimilarity after the two strings.ToLower
similarityOfLower(a, b) ==
    IF a = b THEN Score(1, 1)
    ELSE IF HasPrefix(b, a) THEN Score(9, 10)
    ELSE Score(Max(Len(a), Len(b)) - levenshteinDistance(a, b), Max(Len(a), Len(b)))

calculateSimilarity(a, b) == similarityOfLower(ToLower(a), ToLower(b))

\* a score that reaches the threshold
atLeastThreshold(score) == ~ScoreGreater(threshold, score)
\* score > threshold
aboveThreshold(score) == ScoreGreater(score, threshold)

\* a suggestion: a name and its score
Suggestion(name, score) == [name |-> name, score |-> score]

\* the candidates that score above the threshold, in their order
RECURSIVE scored(_, _, _, _)
scored(target, candidates, i, suggestions) ==
    IF i > Len(candidates) THEN suggestions
    ELSE IF aboveThreshold(calculateSimilarity(target, candidates[i]))
    THEN scored(target, candidates, i + 1,
                Append(suggestions,
                       Suggestion(candidates[i],
                                  calculateSimilarity(target, candidates[i]))))
    ELSE scored(target, candidates, i + 1, suggestions)

\* the less of getSuggestions: the higher score first
lessByScore(x, y) == ScoreGreater(x.score, y.score)
\* a less that looks at the scores alone
lessByScoreAlone(x, y) == ScoreGreater(x.score, y.score)
\* the less of FindSimilar: the higher score first, of equal scores the
\* smaller name first
lessByScoreThenName(x, y) ==
    IF ScoreEqual(x.score, y.score) THEN StringLess(x.name, y.name)
    ELSE ScoreGreater(x.score, y.score)

\* sort.Slice on fewer than 12 elements is an insertion sort: each element
\* moves left past the elements it is less than.  byName: the less of
\* FindSimilar, else the less of getSuggestions
RECURSIVE insertLeft(_, _, _, _)
insertLeft(sorted, x, k, byName) ==
    IF k > 0 /\ (IF byName THEN lessByScoreThenName(x, sorted[k])
                 ELSE lessByScore(x, sorted[k]))
    THEN insertLeft(sorted, x, k - 1, byName)
    ELSE SubSeq(sorted, 1, k) \o <<x>> \o SubSeq(sorted, k + 1, Len(sorted))

RECURSIVE sortSlice(_, _, _, _)
sortSlice(suggestions, i, sorted, byName) ==
    IF i > Len(suggestions) THEN sorted
    ELSE sortSlice(suggestions, i + 1,
                   insertLeft(sorted, suggestions[i], Len(sorted), byName), byName)

\* the names of the first n suggestions
topNames(sorted, n) == [k \in 1..Min(n, Len(sorted)) |-> sorted[k].name]

\* suggest.FindSimilar
FindSimilar(target, candidates, maxResults) ==
    IF target = << >> \/ maxResults <= 0 THEN << >>
    ELSE topNames(sortSlice(scored(target, candidates, 1, << >>), 1, << >>, TRUE),
                  maxResults)

\* maxSuggestions := 3
maxSuggestions == 3

Dash == <<"-">>
DashDash == <<"-","-">>

\* the four spellings Parse compares each token with
HelpTokens == { <<"-","h">>, <<"-","-","h">>,
                <<"-","h","e","l","p">>, <<"-","-","h","e","l","p">> }

\* strconv.ParseBool: the accepted spellings
BoolTrue == { <<"1">>, <<"t">>, <<"T">>, <<"T","R","U","E">>,
              <<"t","r","u","e">>, <<"T","r","u","e">> }
BoolFalse == { <<"0">>, <<"f">>, <<"F">>, <<"F","A","L","S","E">>,
               <<"f","a","l","s","e">>, <<"F","a","l","s","e">> }

\* flag.Value.String(): strconv.FormatBool for a bool flag, the string itself
\* for a string flag
ValueString(kind, v) ==
    IF kind = "bool"
    THEN (IF v THEN <<"t","r","u","e">> ELSE <<"f","a","l","s","e">>)
    ELSE v

(***************************************************************************)
(* Command trees.  A tree is [root, nodes]; a node is a Command: Name,     *)
(* Flags (the declared flags: name, kind, declared default), NilFlags      *)
(* (Flags == nil as built by the author), FlagsMetadata, SubCommands (node *)
(* ids, in order) and Exec (Exec # nil).                                   *)
(***************************************************************************)
NoCmd == "<nil>"

BoolFlag(n, d) == [name |-> n, kind |-> "bool", def |-> d]
StringFlag(n, d) == [name |-> n, kind |-> "string", def |-> d]
Meta(n, r) == [Name |-> n, Required |-> r]

Command(name, flags, nilf, meta, subs, exec) ==
    [Name |-> name, Flags |-> flags, NilFlags |-> nilf,
     FlagsMetadata |-> meta, SubCommands |-> subs, Exec |-> exec]

\* tokens and names used by the trees and the vocabularies
sTodo == <<"t","o","d","o">>
sAdd == <<"a","d","d">>
sADD == <<"A","D","D">>
sNested == <<"n","e","s","t","e","d">>
sSub == <<"s","u","b">>
sHello == <<"h","e","l","l","o">>
sApp == <<"a","p","p">>
sFoo == <<"f","o","o">>
sBar == <<"b","a","r">>
sX == <<"x">>
sY == <<"y">>
sEmpty == << >>
sFalse == <<"f","a","l","s","e">>

\* the tree of the parse tests, with a shadowed flag n on add:
\*   todo -v -n
\*   |-- add -d -n
\*   `-- nested -f
\*       `-- sub -e
TodoTree ==
    [root |-> "todo",
     nodes |->
       [id \in {"todo", "add", "nested", "sub"} |->
          CASE id = "todo" ->
                 Command(sTodo,
                         <<BoolFlag(<<"v">>, FALSE), StringFlag(<<"n">>, sEmpty)>>,
                         FALSE, << >>, <<"add", "nested">>, TRUE)
            [] id = "add" ->
                 Command(sAdd,
                         <<BoolFlag(<<"d">>, FALSE), StringFlag(<<"n">>, sEmpty)>>,
                         FALSE, << >>, << >>, TRUE)
            [] id = "nested" ->
                 Command(sNested, <<BoolFlag(<<"f">>, FALSE)>>,
                         FALSE, << >>, <<"sub">>, TRUE)
            [] id = "sub" ->
                 Command(sSub, <<StringFlag(<<"e">>, sEmpty)>>,
                         FALSE, <<Meta(<<"e">>, FALSE)>>, << >>, TRUE)]]

\* required flags on two levels:
\*   app -r (required)
\*   `-- hello -m (required) -a (required)
ReqTree ==
    [root |-> "app",
     nodes |->
       [id \in {"app", "hello"} |->
          CASE id = "app" ->
                 Command(sApp, <<StringFlag(<<"r">>, sEmpty)>>,
                         FALSE, <<Meta(<<"r">>, TRUE)>>, <<"hello">>, TRUE)
            [] id = "hello" ->
                 Command(sHello,
                         <<BoolFlag(<<"m">>, FALSE), StringFlag(<<"a">>, sEmpty)>>,
                         FALSE,
                         <<Meta(<<"m">>, TRUE), Meta(<<"a">>, TRUE)>>,
                         << >>, TRUE)]]

\* the tree of "error on parse with no exec": no flag sets, bar has no Exec
FooTree ==
    [root |-> "foo",
     nodes |->
       [id \in {"foo", "bar"} |->
          CASE id = "foo" ->
                 Command(sFoo, << >>, TRUE, << >>, <<"bar">>, TRUE)
            [] id = "bar" ->
                 Command(sBar, << >>, TRUE, << >>, << >>, FALSE)]]

\* the tree of "space in command name"
SpaceTree ==
    [root |-> "root",
     nodes |->
       [id \in {"root", "subcmd"} |->
          CASE id = "root" ->
                 Command(<<"r","o","o","t">>, << >>, TRUE, << >>, <<"subcmd">>, TRUE)
            [] id = "subcmd" ->
                 Command(<<"s","u","b"," ","c","m","d">>, <<BoolFlag(<<"q">>, FALSE)>>,
                         FALSE, << >>, << >>, TRUE)]]

\* the tree of "typo suggestion", with more children: no flag sets,
\*   count
\*   |-- version, stat, status, start, state, stop
sVersion == <<"v","e","r","s","i","o","n">>
sVerzion == <<"v","e","r","z","i","o","n">>
sStat == <<"s","t","a","t">>
sStatus == <<"s","t","a","t","u","s">>
sStart == <<"s","t","a","r","t">>
sState == <<"s","t","a","t","e">>
sStop == <<"s","t","o","p">>
sSta == <<"s","t","a">>
sStats == <<"s","t","a","t","s">>
sOp == <<"o","p">>

CountTree ==
    [root |-> "count",
     nodes |->
       [id \in {"count", "version", "stat", "status", "start", "state", "stop"} |->
          CASE id = "count" ->
                 Command(<<"c","o","u","n","t">>, << >>, TRUE, << >>,
                         <<"version", "stat", "status", "start", "state", "stop">>,
                         TRUE)
            [] id = "version" -> Command(sVersion, << >>, TRUE, << >>, << >>, TRUE)
            [] id = "stat" -> Command(sStat, << >>, TRUE, << >>, << >>, TRUE)
            [] id = "status" -> Command(sStatus, << >>, TRUE, << >>, << >>, TRUE)
            [] id = "start" -> Command(sStart, << >>, TRUE, << >>, << >>, TRUE)
            [] id = "state" -> Command(sState, << >>, TRUE, << >>, << >>, TRUE)
            [] id = "stop" -> Command(sStop, << >>, TRUE, << >>, << >>, TRUE)]]

\* the tree of "empty name in subcommand": the test tree with sub.Name = ""
NoNameTree ==
    [root |-> "todo",
     nodes |->
       [id \in {"todo", "nested", "sub"} |->
          CASE id = "todo" ->
                 Command(sTodo, <<BoolFlag(<<"v">>, FALSE)>>,
                         FALSE, << >>, <<"nested">>, TRUE)
            [] id = "nested" ->
                 Command(sNested, <<BoolFlag(<<"f">>, FALSE)>>,
                         FALSE, << >>, <<"sub">>, TRUE)
            [] id = "sub" ->
                 Command(sEmpty, <<StringFlag(<<"e">>, sEmpty)>>,
                         FALSE, << >>, << >>, TRUE)]]

\* a required flag that no flag set registers, on one of two children:
\*   root -v
\*   |-- ok
\*   `-- bad -b, FlagsMetadata: g (required)
sOk == <<"o","k">>
sBad == <<"b","a","d">>

AuthorTree ==
    [root |-> "root",
     nodes |->
       [id \in {"root", "ok", "bad"} |->
          CASE id = "root" ->
                 Command(<<"r","o","o","t">>, <<BoolFlag(<<"v">>, FALSE)>>,
                         FALSE, << >>, <<"ok", "bad">>, TRUE)
            [] id = "ok" ->
                 Command(sOk, << >>, FALSE, << >>, << >>, TRUE)
            [] id = "bad" ->
                 Command(sBad, <<BoolFlag(<<"b">>, FALSE)>>,
                         FALSE, <<Meta(<<"g">>, TRUE)>>, << >>, TRUE)]]

\* a command without an Exec that has flags, one of them required:
\*   run -v
\*   `-- job -n (required) -b        (no Exec)
sJob == <<"j","o","b">>

JobTree ==
    [root |-> "run",
     nodes |->
       [id \in {"run", "job"} |->
          CASE id = "run" ->
                 Command(<<"r","u","n">>, <<BoolFlag(<<"v">>, FALSE)>>,
                         FALSE, << >>, <<"job">>, TRUE)
            [] id = "job" ->
                 Command(sJob,
                         <<StringFlag(<<"n">>, sEmpty), BoolFlag(<<"b">>, FALSE)>>,
                         FALSE, <<Meta(<<"n">>, TRUE)>>, << >>, FALSE)]]

\* p with two types on one path, under a root without a flag set:
\*   cfg
\*   `-- mid -p (bool) -q (string)
\*       `-- set -p (string)
sMid == <<"m","i","d">>
sSet == <<"s","e","t">>

TypeTree ==
    [root |-> "cfg",
     nodes |->
       [id \in {"cfg", "mid", "set"} |->
          CASE id = "cfg" ->
                 Command(<<"c","f","g">>, << >>, TRUE, << >>, <<"mid">>, TRUE)
            [] id = "mid" ->
                 Command(sMid, <<BoolFlag(<<"p">>, FALSE), StringFlag(<<"q">>, sEmpty)>>,
                         FALSE, << >>, <<"set">>, TRUE)
            [] id = "set" ->
                 Command(sSet, <<StringFlag(<<"p">>, sEmpty)>>,
                         FALSE, << >>, << >>, TRUE)]]

\* a root with one child whose name has a tab in it
sTab == <<"a", "\t", "b">>
TabTree ==
    [root |-> "app",
     nodes |->
       [id \in {"app", "ab"} |->
          CASE id = "app" ->
                 Command(sApp, <<BoolFlag(<<"v">>, FALSE)>>, FALSE, << >>, <<"ab">>, TRUE)
            [] id = "ab" ->
                 Command(sTab, << >>, TRUE, << >>, << >>, TRUE)]]

\* the trees of TestRun in one: count has the flag d and an Exec, version an
\* Exec and no flag set
RunTree ==
    [root |-> "count",
     nodes |->
       [id \in {"count", "version"} |->
          CASE id = "count" ->
                 Command(<<"c","o","u","n","t">>, <<BoolFlag(<<"d">>, FALSE)>>,
                         FALSE, << >>, <<"version">>, TRUE)
            [] id = "version" ->
                 Command(sVersion, << >>, TRUE, << >>, << >>, TRUE)]]

(***************************************************************************)
(* Scenarios: a tree and the vocabulary the args of a call are drawn from. *)
(***************************************************************************)
Flag1(n) == <<"-">> \o n
Flag2(n) == <<"-","-">> \o n
FlagEq(n, v) == <<"-","-">> \o n \o <<"=">> \o v

tHelp == <<"-","-","h","e","l","p">>
tH == <<"-","h">>

Scenarios ==
    << \* 1: leftover arguments, names of commands as positionals
       [tree |-> TodoTree,
        vocab |-> {sAdd, sADD, sX, sTodo, Flag2(<<"d">>), Flag1(<<"n">>)}],
       \* 2: the delimiter and the help spellings
       [tree |-> TodoTree,
        vocab |-> {DashDash, tHelp, sAdd, Flag2(<<"v">>), sX, Flag2(<<"z">>)}],
       \* 3: flags of siblings, ancestors and descendants
       [tree |-> TodoTree,
        vocab |-> {sAdd, sNested, sSub, Flag2(<<"d">>), FlagEq(<<"e">>, sY),
                   FlagEq(<<"n">>, sY)}],
       \* 4: a flag and its value as two tokens, among commands and positionals
       [tree |-> TodoTree,
        vocab |-> {sAdd, Flag1(<<"n">>), sX, Flag2(<<"v">>), FlagEq(<<"v">>, sX),
                   Dash}],
       \* 5: required flags
       [tree |-> ReqTree,
        vocab |-> {sHello, FlagEq(<<"r">>, sX), Flag2(<<"m">>),
                   FlagEq(<<"m">>, sFalse), FlagEq(<<"a">>, sX), Flag1(<<"a">>)}],
       \* 6: no flag sets, no Exec
       [tree |-> FooTree,
        vocab |-> {sBar, <<"B","a","r">>, tH, sX, DashDash, Flag1(<<"q">>)}],
       \* 7: an invalid name
       [tree |-> SpaceTree,
        vocab |-> {sSub, sX, tHelp}],
       \* 8: required flags over several calls
       [tree |-> ReqTree,
        vocab |-> {sHello, FlagEq(<<"r">>, sX), FlagEq(<<"a">>, sX),
                   FlagEq(<<"a">>, sEmpty), Flag2(<<"m">>)}],
       \* 9: tokens near the names of the children
       [tree |-> CountTree,
        vocab |-> {sVerzion, sSta, sStats, sOp, sStat, sEmpty}],
       \* 10: one name with two types on the path
       [tree |-> TypeTree,
        vocab |-> {sMid, sSet, Flag2(<<"p">>), FlagEq(<<"p">>, sY), FlagEq(<<"q">>, sY)}],
       \* 11: a command without a name
       [tree |-> NoNameTree,
        vocab |-> {sNested, tHelp, Flag2(<<"v">>), sX}],
       \* 12: a required flag that is in no flag set
       [tree |-> AuthorTree,
        vocab |-> {sOk, sBad, Flag2(<<"v">>), Flag2(<<"z">>), tHelp, sX}],
       \* 13: a command with flags and without an Exec
       [tree |-> JobTree,
        vocab |-> {sJob, FlagEq(<<"n">>, sX), FlagEq(<<"b">>, sX), Flag2(<<"z">>),
                   sX, DashDash}],
       \* 14: flags of the root and of add over several calls
       [tree |-> TodoTree,
        vocab |-> {sAdd, Flag2(<<"v">>), FlagEq(<<"n">>, sY), Flag2(<<"d">>), sX}],
       \* 15: a name with a tab
       [tree |-> TabTree,
        vocab |-> {sTab, sX, Flag2(<<"v">>)}],
       \* 16: Parse and Run
       [tree |-> RunTree,
        vocab |-> {sVersion, tHelp, Flag2(<<"z">>), FlagEq(<<"d">>, sX), sX}],
       \* 17: help spelled with a value
       [tree |-> TodoTree,
        vocab |-> {sAdd, Flag2(<<"v">>), FlagEq(<<"h","e","l","p">>, sX), tHelp, sX}] >>

\* the scenarios of the runs with several calls
SeqScenarios == {8, 14}
\* the scenarios of the runs with GetFlag calls
GetScenarios == {10}
\* the scenarios of the runs with Run calls
RunScenarios == {16}

Tree == Scenarios[sc].tree
Nodes(T) == DOMAIN T.nodes

\* the names a node's flag set declares
FlagNames(T, id) == { T.nodes[id].Flags[i].name : i \in 1..Len(T.nodes[id].Flags) }

\* the declaration of flag n on node id
FlagDecl(T, id, n) ==
    T.nodes[id].Flags[CHOOSE i \in 1..Len(T.nodes[id].Flags) :
                          T.nodes[id].Flags[i].name = n]

\* every declared flag of a tree: <<node, name>>
CellKeys(T) == UNION { { <<id, n>> : n \in FlagNames(T, id) } : id \in Nodes(T) }

\* the cells as the flag declarations leave them
DefaultCells(T) == [k \in CellKeys(T) |-> FlagDecl(T, k[1], k[2]).def]

(***************************************************************************)
(* Errors.  kind: "ok", "invalid" (validateCommands), "unknowncmd",        *)
(* "help" (flag.ErrHelp from the help check), "panic" (showHelp on a nil   *)
(* flag set), "flag" (an error of ParseToEnd; why: "undefined",            *)
(* "badsyntax", "needsarg", "badvalue", "help"), "internal" (a required    *)
(* flag that is in no flag set), "missing", "noexec" (NoExecError).        *)
(***************************************************************************)
Err(kind, why, node, tok, names) ==
    [kind |-> kind, why |-> why, node |-> node, tok |-> tok, names |-> names]
NoErr == Err("ok", "", NoCmd, << >>, << >>)

\* validateCommands: the first node, depth first, with an empty name or a
\* name that contains a space.  The error of an empty name carries the names
\* from the root to the parent, the error of a space the name alone.
RECURSIVE validateCommands(_, _, _)
RECURSIVE validateSubs(_, _, _, _)
validateCommands(T, root, path) ==
    LET name == T.nodes[root].Name IN
    IF name = << >>
    THEN Err("invalid", "noname", root, << >>, path)
    ELSE IF ContainsSpace(name)
    THEN Err("invalid", "spaces", root, name, << >>)
    ELSE validateSubs(T, T.nodes[root].SubCommands, 1, Append(path, name))
validateSubs(T, subs, i, currentPath) ==
    IF i > Len(subs) THEN NoErr
    ELSE LET e == validateCommands(T, subs[i], currentPath) IN
         IF e.kind # "ok" THEN e ELSE validateSubs(T, subs, i + 1, currentPath)

\* Command.findSubCommand: the first child whose name equals name, ignoring case
findSubCommand(T, c, name) ==
    LET subs == T.nodes[c].SubCommands
        hits == { i \in 1..Len(subs) : EqualFold(T.nodes[subs[i]].Name, name) }
    IN IF hits = {} THEN NoCmd
       ELSE subs[CHOOSE i \in hits : \A j \in hits : i <= j]

\* Command.getSuggestions: the names of the children that score above 0.5
\* against the unknown token, the higher score first, three at most
getSuggestions(T, c, unknownCmd) ==
    topNames(sortSlice(scored(unknownCmd,
                              [k \in 1..Len(T.nodes[c].SubCommands) |->
                                 T.nodes[T.nodes[c].SubCommands[k]].Name],
                              1, << >>),
                       1, << >>, FALSE),
             maxSuggestions)

\* the split at the first "--": argsToParse and remainingArgs
DelimiterAt(a) ==
    IF \E i \in 1..Len(a) : a[i] = DashDash
    THEN CHOOSE i \in 1..Len(a) : a[i] = DashDash /\ \A j \in 1..(i - 1) : a[j] # DashDash
    ELSE 0
\* a split that hands every token to the passes of Parse
argsToParseWhole(a) == a
argsToParseOf(a) == IF DelimiterAt(a) = 0 THEN a ELSE SubSeq(a, 1, DelimiterAt(a) - 1)
remainingArgsOf(a) == IF DelimiterAt(a) = 0 THEN << >> ELSE SubSeq(a, DelimiterAt(a) + 1, Len(a))

\* First pass of Parse over argsToParse from token i on: skips what starts with
\* "-", descends into the child a token names, fails on a token that names no
\* child of a command that has children, stops at the first token when the
\* command has none.  used: the indices of the tokens that named a child.
RECURSIVE Discover(_, _, _, _, _, _)
RECURSIVE Descend(_, _, _, _, _, _, _)
\* a descent that lets a command with an Exec take a token that names none
\* of its children as its first argument
DescendOrStop(T, toks, i, current, chain, used, sub) ==
    IF sub # NoCmd
    THEN Discover(T, toks, i + 1, sub, Append(chain, sub), used \cup {i})
    ELSE IF T.nodes[current].Exec
    THEN [err |-> NoErr, chain |-> chain, used |-> used]
    ELSE [err |-> Err("unknowncmd", "", current, toks[i], << >>),
          chain |-> chain, used |-> used]
Discover(T, toks, i, current, chain, used) ==
    IF i > Len(toks)
    THEN [err |-> NoErr, chain |-> chain, used |-> used]
    ELSE IF HasPrefix(toks[i], Dash)
    THEN Discover(T, toks, i + 1, current, chain, used)
    ELSE IF Len(T.nodes[current].SubCommands) > 0
    THEN Descend(T, toks, i, current, chain, used, findSubCommand(T, current, toks[i]))
    ELSE [err |-> NoErr, chain |-> chain, used |-> used]
\* sub: what current.findSubCommand(arg) returned
Descend(T, toks, i, current, chain, used, sub) ==
    IF sub # NoCmd
    THEN Discover(T, toks, i + 1, sub, Append(chain, sub), used \cup {i})
    ELSE [err |-> Err("unknowncmd", "", current, toks[i],
                      getSuggestions(T, current, toks[i])),
          chain |-> chain, used |-> used]

\* the help check: some token of argsToParse is one of the four spellings
HelpRequested(toks) == \E i \in 1..Len(toks) : toks[i] \in HelpTokens

(***************************************************************************)
(* The combined flag set.  An entry is a flag.Flag registered by           *)
(* combinedFlags.Var: its name, the command whose value cell it shares,    *)
(* the kind of the value, and DefValue, which flag.Var sets to the         *)
(* String() of the value at the time of the registration.                  *)
(***************************************************************************)
LookupFlag(formal, n) ==
    IF \E f \in formal : f.name = n
    THEN {CHOOSE f \in formal : f.name = n}
    ELSE {}

\* a combined flag set of the flags of the last command of the chain alone
combinedFlagsOfLast(T, commandChain, i, nilf, cs, formal) ==
    IF i = 0 \/ commandChain[i] \in nilf THEN formal
    ELSE formal \cup
         { [name |-> n, owner |-> commandChain[i],
            kind |-> FlagDecl(T, commandChain[i], n).kind,
            DefValue |-> ValueString(FlagDecl(T, commandChain[i], n).kind,
                                     cs[<<commandChain[i], n>>])] :
           n \in FlagNames(T, commandChain[i]) }

\* a combined flag set filled from the root on, so that of two flags of one
\* name the one nearer the root is registered
RECURSIVE combinedFlagsFromRoot(_, _, _, _, _, _)
combinedFlagsFromRoot(T, commandChain, k, nilf, cs, formal) ==
    IF k > Len(commandChain) THEN formal
    ELSE combinedFlagsFromRoot(T, commandChain, k + 1, nilf, cs,
           formal \cup
           (IF commandChain[k] \in nilf THEN {}
            ELSE { [name |-> n, owner |-> commandChain[k],
                    kind |-> FlagDecl(T, commandChain[k], n).kind,
                    DefValue |-> ValueString(FlagDecl(T, commandChain[k], n).kind,
                                             cs[<<commandChain[k], n>>])] :
                   n \in { m \in FlagNames(T, commandChain[k]) :
                             \A f \in formal : f.name # m } }))
combinedFlagsRootFirst(T, commandChain, i, nilf, cs, formal) ==
    combinedFlagsFromRoot(T, commandChain, 1, nilf, cs, formal)

\* "Add flags in reverse order for proper precedence": the chain from its
\* last command to the root; a name already registered is not registered again
RECURSIVE combinedFlagsOf(_, _, _, _, _, _)
combinedFlagsOf(T, commandChain, i, nilf, cs, formal) ==
    IF i = 0 THEN formal
    ELSE LET cmd == commandChain[i]
             new == IF cmd \in nilf THEN {}
                    ELSE { [name |-> n, owner |-> cmd,
                            kind |-> FlagDecl(T, cmd, n).kind,
                            DefValue |-> ValueString(FlagDecl(T, cmd, n).kind,
                                                     cs[<<cmd, n>>])] :
                           n \in { m \in FlagNames(T, cmd) : LookupFlag(formal, m) = {} } }
         IN combinedFlagsOf(T, commandChain, i - 1, nilf, cs, formal \cup new)

\* the position of the first "=" after the first character of name, or 0
EqualsAt(name) ==
    IF \E i \in 2..Len(name) : name[i] = "="
    THEN CHOOSE i \in 2..Len(name) : name[i] = "=" /\ \A j \in 2..(i - 1) : name[j] # "="
    ELSE 0

\* what parseOne returns: seen (a flag was parsed), err, the cells and f.args
ParsedOne(seen, e, cs, rest) == [seen |-> seen, err |-> e, cells |-> cs, args |-> rest]
FlagErr(why, n) == Err("flag", why, NoCmd, n, << >>)

\* a Set that stores a value only in a cell that still holds what it held
\* when the flag was registered
setFlagValueOnce(cs, rest, name, hasValue, value, f) ==
    LET fresh == ValueString(f.kind, cs[<<f.owner, f.name>>]) = f.DefValue
        store(v) == IF fresh THEN [cs EXCEPT ![<<f.owner, f.name>>] = v] ELSE cs
    IN
    IF f.kind = "bool"
    THEN IF ~hasValue \/ value \in BoolTrue
         THEN ParsedOne(TRUE, NoErr, store(TRUE), rest)
         ELSE IF value \in BoolFalse
         THEN ParsedOne(TRUE, NoErr, store(FALSE), rest)
         ELSE ParsedOne(FALSE, FlagErr("badvalue", name), store(FALSE), rest)
    ELSE IF hasValue
    THEN ParsedOne(TRUE, NoErr, store(value), rest)
    ELSE IF Len(rest) > 0
    THEN ParsedOne(TRUE, NoErr, store(rest[1]), Tail(rest))
    ELSE ParsedOne(FALSE, FlagErr("needsarg", name), cs, rest)

\* parseOne, the end: the flag f of the set takes its value.  A bool flag
\* takes "true" or the text after "="; any other flag takes the text after
\* "=" or else the next argument.  Set of a bool flag stores what ParseBool
\* returned before it returns the error: false, for a text ParseBool rejects.
setFlagValue(cs, rest, name, hasValue, value, f) ==
    IF f.kind = "bool"
    THEN IF ~hasValue \/ value \in BoolTrue
         THEN ParsedOne(TRUE, NoErr, [cs EXCEPT ![<<f.owner, f.name>>] = TRUE], rest)
         ELSE IF value \in BoolFalse
         THEN ParsedOne(TRUE, NoErr, [cs EXCEPT ![<<f.owner, f.name>>] = FALSE], rest)
         ELSE ParsedOne(FALSE, FlagErr("badvalue", name),
                        [cs EXCEPT ![<<f.owner, f.name>>] = FALSE], rest)
    ELSE IF hasValue
    THEN ParsedOne(TRUE, NoErr, [cs EXCEPT ![<<f.owner, f.name>>] = value], rest)
    ELSE IF Len(rest) > 0
    THEN ParsedOne(TRUE, NoErr, [cs EXCEPT ![<<f.owner, f.name>>] = rest[1]], Tail(rest))
    ELSE ParsedOne(FALSE, FlagErr("needsarg", name), cs, rest)

\* parseOne, the lookup of the name in f.formal
lookupAndSet(cs, rest, name, hasValue, value, found) ==
    IF found = {}
    THEN IF name = <<"h","e","l","p">> \/ name = <<"h">>
         THEN ParsedOne(FALSE, FlagErr("help", name), cs, rest)
         ELSE ParsedOne(FALSE, FlagErr("undefined", name), cs, rest)
    ELSE setFlagValue(cs, rest, name, hasValue, value, CHOOSE x \in found : TRUE)

\* parseOne, the split of name=value at the "=" found at eq (0: none)
splitAndSet(formal, cs, rest, name0, eq) ==
    IF eq = 0
    THEN lookupAndSet(cs, rest, name0, FALSE, << >>, LookupFlag(formal, name0))
    ELSE lookupAndSet(cs, rest, SubSeq(name0, 1, eq - 1), TRUE,
                      SubSeq(name0, eq + 1, Len(name0)),
                      LookupFlag(formal, SubSeq(name0, 1, eq - 1)))

\* parseOne, the check of the text after the one or two minuses
checkNameAndSet(formal, cs, fargs, name0) ==
    IF Len(name0) = 0 \/ name0[1] = "-" \/ name0[1] = "="
    THEN ParsedOne(FALSE, FlagErr("badsyntax", fargs[1]), cs, fargs)
    ELSE splitAndSet(formal, cs, Tail(fargs), name0, EqualsAt(name0))

\* flag.FlagSet.parseOne on the arguments fargs
parseOne(formal, cs, fargs) ==
    IF Len(fargs) = 0 THEN ParsedOne(FALSE, NoErr, cs, fargs)
    ELSE IF Len(fargs[1]) < 2 \/ fargs[1][1] # "-" THEN ParsedOne(FALSE, NoErr, cs, fargs)
    ELSE IF fargs[1] = DashDash THEN ParsedOne(FALSE, NoErr, cs, Tail(fargs))
    ELSE checkNameAndSet(formal, cs, fargs,
                         SubSeq(fargs[1], (IF fargs[1][2] = "-" THEN 3 ELSE 2),
                                Len(fargs[1])))

\* flag.FlagSet.Parse: parseOne until no flag is seen or an error.  steps: how
\* many tokens each parsed flag took (1, or 2 with its value)
RECURSIVE FlagSetParseLoop(_, _, _)
RECURSIVE FlagSetParseStep(_, _, _, _)
FlagSetParseStep(formal, fargs, steps, r) ==
    IF r.seen
    THEN FlagSetParseLoop(formal, r, Append(steps, Len(fargs) - Len(r.args)))
    ELSE [err |-> r.err, cells |-> r.cells, args |-> r.args, steps |-> steps]
FlagSetParseLoop(formal, r0, steps) ==
    FlagSetParseStep(formal, r0.args, steps, parseOne(formal, r0.cells, r0.args))

FlagSetParse(formal, cs, arguments) ==
    FlagSetParseLoop(formal, ParsedOne(TRUE, NoErr, cs, arguments), << >>)

\* the flags parsed by one FlagSetParse, as <<index of the flag token, number
\* of tokens>>, when the arguments start after the first offset tokens
RECURSIVE UnitsOf(_, _)
UnitsOf(offset, steps) ==
    IF steps = << >> THEN {}
    ELSE {<<offset + 1, Head(steps)>>} \cup UnitsOf(offset + Head(steps), Tail(steps))

\* what ParseToEnd returns: err, the cells, f.Args() and the flags parsed
ParsedToEnd(e, cs, rest, units) == [err |-> e, cells |-> cs, args |-> rest, units |-> units]

\* The loop of xflag.ParseToEnd over remainingArgs, which is a suffix of the
\* n tokens given to ParseToEnd.  acc: the positional arguments so far;
\* units: the flags parsed so far.
RECURSIVE ParseToEndLoop(_, _, _, _, _, _, _)
RECURSIVE ParseToEndFlag(_, _, _, _, _, _)
ParseToEndLoop(formal, n, remainingArgs, i, acc, cs, units) ==
    IF i > Len(remainingArgs)
    THEN ParsedToEnd(NoErr, cs, acc, units)
    ELSE IF Len(remainingArgs[i]) > 1 /\ remainingArgs[i][1] = "-"
    THEN IF remainingArgs[i] = DashDash
         THEN ParsedToEnd(NoErr, cs,
                          acc \o SubSeq(remainingArgs, i, Len(remainingArgs)), units)
         ELSE ParseToEndFlag(formal, n, Len(remainingArgs) - i + 1, acc, units,
                             FlagSetParse(formal, cs,
                                          SubSeq(remainingArgs, i, Len(remainingArgs))))
    ELSE ParseToEndLoop(formal, n, remainingArgs, i + 1,
                        Append(acc, remainingArgs[i]), cs, units)
\* r: what f.Parse(remainingArgs[i:]) returned on these len arguments
ParseToEndFlag(formal, n, len, acc, units, r) ==
    IF r.err.kind # "ok"
    THEN ParsedToEnd(r.err, r.cells, acc, units \cup UnitsOf(n - len, r.steps))
    ELSE ParseToEndLoop(formal, n, r.args, 1, acc, r.cells,
                        units \cup UnitsOf(n - len, r.steps))

\* the end of ParseToEnd: f.Parse("--" and the positional arguments)
ParseToEndLast(formal, lp) ==
    IF lp.err.kind = "ok" /\ Len(lp.args) > 0
    THEN ParsedToEnd(FlagSetParse(formal, lp.cells, <<DashDash>> \o lp.args).err,
                     lp.cells,
                     FlagSetParse(formal, lp.cells, <<DashDash>> \o lp.args).args,
                     lp.units)
    ELSE lp

\* first: what f.Parse(arguments) returned
ParseToEndRest(formal, n, first) ==
    IF first.err.kind # "ok" \/ Len(first.args) = 0
    THEN ParsedToEnd(first.err, first.cells, first.args, UnitsOf(0, first.steps))
    ELSE ParseToEndLast(formal,
                        ParseToEndLoop(formal, n, first.args, 1, << >>, first.cells,
                                       UnitsOf(0, first.steps)))

\* xflag.ParseToEnd(f, arguments): f.Parse(arguments), then the loop over what
\* is left, then f.Parse("--" and the positional arguments); args is f.Args()
ParseToEnd(formal, cs, arguments) ==
    ParseToEndRest(formal, Len(arguments), FlagSetParse(formal, cs, arguments))

formatFlagName(name) == <<"-">> \o name

\* getCommandPath without the join: the names of the commands of a path
getCommandPath(T, path) == [i \in 1..Len(path) |-> T.nodes[path[i]].Name]

\* the FlagsMetadata names marked Required, over the chain from the root on,
\* in the order of declaration
RECURSIVE requiredNames(_, _, _)
requiredNames(T, commandChain, i) ==
    IF i > Len(commandChain) THEN << >>
    ELSE LET md == T.nodes[commandChain[i]].FlagsMetadata
             req == SelectSeq(md, LAMBDA m : m.Required)
         IN [k \in 1..Len(req) |-> req[k].Name] \o requiredNames(T, commandChain, i + 1)

\* "Check required flags": a required name that is in no flag set ends the
\* check at once; a flag whose String() equals its DefValue is missing
RECURSIVE checkRequired(_, _, _, _)
RECURSIVE checkRequiredFlag(_, _, _, _, _)
checkRequired(formal, cs, req, missingFlags) ==
    IF req = << >>
    THEN [internal |-> FALSE, name |-> << >>, missingFlags |-> missingFlags]
    ELSE checkRequiredFlag(formal, cs, req, missingFlags, LookupFlag(formal, Head(req)))
\* found: combinedFlags.Lookup(flagMetadata.Name)
checkRequiredFlag(formal, cs, req, missingFlags, found) ==
    IF found = {}
    THEN [internal |-> TRUE, name |-> formatFlagName(Head(req)),
          missingFlags |-> missingFlags]
    ELSE IF \E f \in found : ValueString(f.kind, cs[<<f.owner, f.name>>]) = f.DefValue
    THEN checkRequired(formal, cs, Tail(req),
                       Append(missingFlags, formatFlagName(Head(req))))
    ELSE checkRequired(formal, cs, Tail(req), missingFlags)

\* "Skip past command names in remaining args": how many leading tokens of
\* parsed equal the Name of a command of the chain
RECURSIVE startIdxOf(_, _, _, _)
startIdxOf(T, commandChain, parsed, k) ==
    IF k > Len(parsed) THEN k - 1
    ELSE IF \E c \in 1..Len(commandChain) : parsed[k] = T.nodes[commandChain[c]].Name
    THEN startIdxOf(T, commandChain, parsed, k + 1)
    ELSE k - 1

\* finalArgs: parsed[startIdx:] and then remainingArgs
finalArgsOf(T, commandChain, parsed, remainingArgs) ==
    LET startIdx == startIdxOf(T, commandChain, parsed, 1) IN
    SubSeq(parsed, startIdx + 1, Len(parsed)) \o remainingArgs


(***************************************************************************)
(* Parse(root, a) on a root in the state st = [cells, nilFlags, hasState,  *)
(* commandPath, Args]: the state it leaves, the error it returns and the   *)
(* roles it gave to the tokens (ran: the last pass it entered).            *)
(***************************************************************************)
Ghost(pass, used, units, parsed, formal) ==
    [ran |-> pass, used |-> used, units |-> units, parsed |-> parsed, formal |-> formal]

\* the root after a call that returned e
Outcome(cs, nilf, path, leftover, e, g) ==
    [cells |-> cs, nilFlags |-> nilf, hasState |-> TRUE, commandPath |-> path,
     Args |-> leftover, err |-> e, ghost |-> g]

\* the command a chain ends with
Last(chain) == chain[Len(chain)]

\* an end of Parse that appends the leftover arguments to the Args the state
\* of the root has
ParseFinishAppendingArgs(T, st, a, d, nilf, names, p, rq) ==
    IF rq.internal
    THEN Outcome(p.cells, nilf, d.chain, st.Args,
                 Err("internal", "", Last(d.chain), rq.name, << >>),
                 Ghost("required", d.used, p.units, p.args, names))
    ELSE IF Len(rq.missingFlags) > 0
    THEN Outcome(p.cells, nilf, d.chain, st.Args,
                 Err("missing", "", Last(d.chain), << >>, rq.missingFlags),
                 Ghost("required", d.used, p.units, p.args, names))
    ELSE Outcome(p.cells, nilf, d.chain,
                 st.Args \o finalArgsOf(T, d.chain, p.args, remainingArgsOf(a)),
                 IF T.nodes[Last(d.chain)].Exec THEN NoErr
                 ELSE Err("noexec", "", T.root, << >>, getCommandPath(T, d.chain)),
                 Ghost("args", d.used, p.units, p.args, names))

\* an end of Parse that looks at Exec before the required flags and before
\* it writes Args
ParseFinishExecFirst(T, st, a, d, nilf, names, p, rq) ==
    IF ~T.nodes[Last(d.chain)].Exec
    THEN Outcome(p.cells, nilf, d.chain, st.Args,
                 Err("noexec", "", T.root, << >>, getCommandPath(T, d.chain)),
                 Ghost("args", d.used, p.units, p.args, names))
    ELSE IF rq.internal
    THEN Outcome(p.cells, nilf, d.chain, st.Args,
                 Err("internal", "", Last(d.chain), rq.name, << >>),
                 Ghost("required", d.used, p.units, p.args, names))
    ELSE IF Len(rq.missingFlags) > 0
    THEN Outcome(p.cells, nilf, d.chain, st.Args,
                 Err("missing", "", Last(d.chain), << >>, rq.missingFlags),
                 Ghost("required", d.used, p.units, p.args, names))
    ELSE Outcome(p.cells, nilf, d.chain,
                 finalArgsOf(T, d.chain, p.args, remainingArgsOf(a)), NoErr,
                 Ghost("args", d.used, p.units, p.args, names))

\* from "Check required flags" on.  p: what ParseToEnd returned; rq: what the
\* check of the required flags found
ParseFinish(T, st, a, d, nilf, names, p, rq) ==
    IF rq.internal
    THEN Outcome(p.cells, nilf, d.chain, st.Args,
                 Err("internal", "", Last(d.chain), rq.name, << >>),
                 Ghost("required", d.used, p.units, p.args, names))
    ELSE IF Len(rq.missingFlags) > 0
    THEN Outcome(p.cells, nilf, d.chain, st.Args,
                 Err("missing", "", Last(d.chain), << >>, rq.missingFlags),
                 Ghost("required", d.used, p.units, p.args, names))
    ELSE Outcome(p.cells, nilf, d.chain,
                 finalArgsOf(T, d.chain, p.args, remainingArgsOf(a)),
                 IF T.nodes[Last(d.chain)].Exec THEN NoErr
                 ELSE \* &NoExecError{Command: root}; names: what its
                      \* Error() reads from the path of the state of the root
                      Err("noexec", "", T.root, << >>, getCommandPath(T, d.chain)),
                 Ghost("args", d.used, p.units, p.args, names))

\* from "Let ParseToEnd handle the flag parsing" on
ParseFlags(T, st, a, d, nilf, combinedFlags, p) ==
    IF p.err.kind # "ok"
    THEN Outcome(p.cells, nilf, d.chain, st.Args,
                 [p.err EXCEPT !.node = Last(d.chain)],
                 Ghost("flags", d.used, p.units, p.args,
                       { f.name : f \in combinedFlags }))
    ELSE ParseFinish(T, st, a, d, nilf, { f.name : f \in combinedFlags }, p,
                     checkRequired(combinedFlags, p.cells,
                                   requiredNames(T, d.chain, 1), << >>))

\* from "Add flags in reverse order for proper precedence" on
ParseCombined(T, st, a, d, nilf, combinedFlags) ==
    ParseFlags(T, st, a, d, nilf, combinedFlags,
               ParseToEnd(combinedFlags, st.cells, argsToParseOf(a)))

\* after the first pass, which returned d.  nilf: every command descended
\* into has a flag set now
ParseDiscovered(T, st, a, d, nilf) ==
    IF d.err.kind # "ok"
    THEN Outcome(st.cells, nilf, d.chain, st.Args, d.err,
                 Ghost("discover", d.used, {}, << >>, {}))
    ELSE IF HelpRequested(argsToParseOf(a))
    THEN \* showHelp starts with c.Flags.Output()
         Outcome(st.cells, nilf, d.chain, st.Args,
                 IF Last(d.chain) \in nilf
                 THEN Err("panic", "nilflags", Last(d.chain), << >>, << >>)
                 ELSE Err("help", "", Last(d.chain), << >>, << >>),
                 Ghost("discover", d.used, {}, << >>, {}))
    ELSE ParseCombined(T, st, a, d, nilf,
                       combinedFlagsOf(T, d.chain, Len(d.chain), nilf, st.cells, {}))

\* after validateCommands
ParseValidated(T, st, a, d) ==
    ParseDiscovered(T, st, a, d, st.nilFlags \ { d.chain[i] : i \in 2..Len(d.chain) })

\* a Parse that appends to the command path the root has
ParseAppending(T, st, a) ==
    IF validateCommands(T, T.root, << >>).kind # "ok"
    THEN [cells |-> st.cells, nilFlags |-> st.nilFlags, hasState |-> st.hasState,
          commandPath |-> st.commandPath, Args |-> st.Args,
          err |-> validateCommands(T, T.root, << >>),
          ghost |-> Ghost("validate", {}, {}, << >>, {})]
    ELSE ParseValidated(T, st, a,
                        Discover(T, argsToParseOf(a), 1, T.root,
                                 (IF st.hasState THEN st.commandPath ELSE <<T.root>>),
                                 {}))

\* a Parse that first puts every cell back to its declared default
ParseResetting(T, st, a) ==
    IF validateCommands(T, T.root, << >>).kind # "ok"
    THEN [cells |-> st.cells, nilFlags |-> st.nilFlags, hasState |-> st.hasState,
          commandPath |-> st.commandPath, Args |-> st.Args,
          err |-> validateCommands(T, T.root, << >>),
          ghost |-> Ghost("validate", {}, {}, << >>, {})]
    ELSE ParseValidated(T, [st EXCEPT !.cells = DefaultCells(T)], a,
                        Discover(T, argsToParseOf(a), 1, T.root, <<T.root>>, {}))

\* a Parse without validateCommands
ParseUnvalidated(T, st, a) ==
    ParseValidated(T, st, a, Discover(T, argsToParseOf(a), 1, T.root, <<T.root>>, {}))

ParseFrom(T, st, a) ==
    IF validateCommands(T, T.root, << >>).kind # "ok"
    THEN [cells |-> st.cells, nilFlags |-> st.nilFlags, hasState |-> st.hasState,
          commandPath |-> st.commandPath, Args |-> st.Args,
          err |-> validateCommands(T, T.root, << >>),
          ghost |-> Ghost("validate", {}, {}, << >>, {})]
    ELSE ParseValidated(T, st, a,
                        Discover(T, argsToParseOf(a), 1, T.root, <<T.root>>, {}))

(***************************************************************************)
(* GetFlag[T](s, name) on a command path: from the last command to the     *)
(* root, the first command whose flag set has name decides.  want is the   *)
(* kind of T.                                                              *)
(***************************************************************************)
RECURSIVE GetFlagFrom(_, _, _, _, _, _, _)
\* a GetFlag that goes on to the commands above when the flag it finds has
\* another type
GetFlagOrAbove(T, path, nilf, cs, name, want, i) ==
    IF i = 0 THEN [kind |-> "notfound", value |-> << >>, node |-> NoCmd]
    ELSE IF path[i] \in nilf \/ name \notin FlagNames(T, path[i])
            \/ FlagDecl(T, path[i], name).kind # want
    THEN GetFlagFrom(T, path, nilf, cs, name, want, i - 1)
    ELSE [kind |-> "value", value |-> cs[<<path[i], name>>], node |-> path[i]]
GetFlagFrom(T, path, nilf, cs, name, want, i) ==
    IF i = 0 THEN [kind |-> "notfound", value |-> << >>, node |-> NoCmd]
    ELSE LET cmd == path[i] IN
         IF cmd \in nilf \/ name \notin FlagNames(T, cmd)
         THEN GetFlagFrom(T, path, nilf, cs, name, want, i - 1)
         ELSE IF FlagDecl(T, cmd, name).kind = want
         THEN [kind |-> "value", value |-> cs[<<cmd, name>>], node |-> cmd]
         ELSE [kind |-> "mismatch", value |-> << >>, node |-> cmd]

GetFlag(T, path, nilf, cs, name, want) ==
    GetFlagFrom(T, path, nilf, cs, name, want, Len(path))

\* the panic of GetFlag: what it is about and what its message names
getFlagPanic(T, path, name, want, out) ==
    IF out.kind = "mismatch"
    THEN [what |-> "type mismatch", flag |-> formatFlagName(name),
          path |-> getCommandPath(T, path),
          registered |-> FlagDecl(T, out.node, name).kind, requested |-> want]
    ELSE IF out.kind = "notfound"
    THEN [what |-> "not found", flag |-> formatFlagName(name),
          path |-> getCommandPath(T, path), registered |-> "", requested |-> ""]
    ELSE [what |-> "", flag |-> << >>, path |-> << >>, registered |-> "", requested |-> ""]

\* no GetFlag call
NoGet == [op |-> "none", name |-> << >>, want |-> "",
          out |-> [kind |-> "", value |-> << >>, node |-> NoCmd],
          msg |-> [what |-> "", flag |-> << >>, path |-> << >>,
                   registered |-> "", requested |-> ""]]

(***************************************************************************)
(* Parse of src/parse.go, which keeps the command it resolved in           *)
(* root.selected, and Run and ParseAndRun of src/run.go, which read it.    *)
(* Every command has a State of its own here: State(made, Args, Stdin,     *)
(* Stdout, Stderr).  A stream is "nil", a stream of the process or a       *)
(* stream the caller made.                                                 *)
(***************************************************************************)
NilStream == "nil"
State(made, leftover, stdin, stdout, stderr) ==
    [made |-> made, Args |-> leftover, Stdin |-> stdin, Stdout |-> stdout,
     Stderr |-> stderr]
NoState == State(FALSE, << >>, NilStream, NilStream, NilStream)

\* RunOptions; isNil: the pointer given to Run is nil
RunOptions(isNil, stdin, stdout, stderr) ==
    [isNil |-> isNil, Stdin |-> stdin, Stdout |-> stdout, Stderr |-> stderr]

\* the loop "Process commands": the help spellings at the current level,
\* flags skipped, a child descended into, a token that names no child of a
\* command with children rejected
RECURSIVE Traverse(_, _, _, _, _)
Traverse(T, argsToTraverse, i, current, commandChain) ==
    IF i > Len(argsToTraverse)
    THEN [err |-> NoErr, chain |-> commandChain]
    ELSE IF argsToTraverse[i] \in HelpTokens
    THEN [err |-> Err("help", "", current, << >>, << >>), chain |-> commandChain]
    ELSE IF HasPrefix(argsToTraverse[i], Dash)
    THEN Traverse(T, argsToTraverse, i + 1, current, commandChain)
    ELSE IF findSubCommand(T, current, argsToTraverse[i]) # NoCmd
    THEN Traverse(T, argsToTraverse, i + 1,
                  findSubCommand(T, current, argsToTraverse[i]),
                  Append(commandChain, findSubCommand(T, current, argsToTraverse[i])))
    ELSE IF Len(T.nodes[current].SubCommands) > 0
    THEN [err |-> Err("unknowncmd", "", current, argsToTraverse[i],
                      getSuggestions(T, current, argsToTraverse[i])),
          chain |-> commandChain]
    ELSE [err |-> NoErr, chain |-> commandChain]

\* what Parse leaves: the cells, the flag sets, root.selected, the states,
\* the error
Selected(cs, nilf, sel, sts, e) ==
    [cells |-> cs, nilFlags |-> nilf, selected |-> sel, states |-> sts, err |-> e]

\* from "Parse flags up to delimiter if present" on; p: what ParseToEnd returned
ParseSelectedFlags(T, a, chain, nilf, sts, p) ==
    IF p.err.kind # "ok"
    THEN Selected(p.cells, nilf, Last(chain), sts, [p.err EXCEPT !.node = Last(chain)])
    ELSE Selected(p.cells, nilf, Last(chain),
                  [sts EXCEPT ![Last(chain)].Args =
                      finalArgsOf(T, chain, p.args, remainingArgsOf(a))],
                  NoErr)

\* after the loop, which returned t: every command of the chain has a state
\* and a flag set; root.selected is the root until the loop is done
ParseTraversed(T, st, a, t, nilf, sts) ==
    IF t.err.kind # "ok"
    THEN Selected(st.cells, nilf, T.root, sts, t.err)
    ELSE ParseSelectedFlags(T, a, t.chain, nilf, sts,
                            ParseToEnd(combinedFlagsOf(T, t.chain, Len(t.chain), nilf,
                                                       st.cells, {}),
                                       st.cells, argsToParseOf(a)))

\* Parse(root, a) of src/parse.go on st = [cells, nilFlags, selected, states]
ParseSelected(T, st, a, t) ==
    IF validateCommands(T, T.root, << >>).kind # "ok"
    THEN Selected(st.cells, st.nilFlags, st.selected, st.states,
                  validateCommands(T, T.root, << >>))
    ELSE ParseTraversed(T, st, a, t,
                        st.nilFlags \ { t.chain[i] : i \in 1..Len(t.chain) },
                        [id \in Nodes(T) |->
                           IF \E i \in 1..Len(t.chain) : t.chain[i] = id
                           THEN [st.states[id] EXCEPT !.made = TRUE]
                           ELSE st.states[id]])

ParseSelectedFrom(T, st, a) ==
    ParseSelected(T, st, a, Traverse(T, argsToParseOf(a), 1, T.root, <<T.root>>))

\* checkAndSetRunOptions: the streams of the process for nil options and for
\* every field left nil
checkAndSetRunOptions(opt) ==
    RunOptions(FALSE,
               IF opt.isNil \/ opt.Stdin = NilStream THEN "os.Stdin" ELSE opt.Stdin,
               IF opt.isNil \/ opt.Stdout = NilStream THEN "os.Stdout" ELSE opt.Stdout,
               IF opt.isNil \/ opt.Stderr = NilStream THEN "os.Stderr" ELSE opt.Stderr)

\* updateState: a stream of the state that is nil takes the stream of opt
updateState(s, opt) ==
    [s EXCEPT !.Stdin = IF s.Stdin = NilStream THEN opt.Stdin ELSE s.Stdin,
              !.Stdout = IF s.Stdout = NilStream THEN opt.Stdout ELSE s.Stdout,
              !.Stderr = IF s.Stderr = NilStream THEN opt.Stderr ELSE s.Stderr]

\* what a Run call did
Ran(op, options, exec, saw, e) ==
    [op |-> op, options |-> options, exec |-> exec, saw |-> saw, err |-> e]
NoStreams == [Stdin |-> NilStream, Stdout |-> NilStream, Stderr |-> NilStream]
NoRun == Ran("none", RunOptions(TRUE, NilStream, NilStream, NilStream), NoCmd,
             NoStreams, "")

\* Run after updateState left s in the state of root.selected; result: what
\* the Exec returns when it is called ("ok" for nil)
RunSelected(T, sel, sts, s, op, options, result) ==
    IF ~T.nodes[sel].Exec
    THEN [states |-> [sts EXCEPT ![sel] = s],
          ran |-> Ran(op, options, NoCmd, NoStreams,
                      IF sel = T.root THEN "help" ELSE "noexec")]
    ELSE [states |-> [sts EXCEPT ![sel] = s],
          ran |-> Ran(op, options, sel,
                      [Stdin |-> s.Stdin, Stdout |-> s.Stdout, Stderr |-> s.Stderr],
                      result)]

\* Run(ctx, root, options) with root.selected = sel; e: what the last Parse
\* returned, which Run does not look at
RunFrom(T, sel, sts, e, op, options, result) ==
    IF sel = NoCmd
    THEN [states |-> sts, ran |-> Ran(op, options, NoCmd, NoStreams, "notparsed")]
    ELSE RunSelected(T, sel, sts,
                     updateState(sts[sel], checkAndSetRunOptions(options)),
                     op, options, result)

(***************************************************************************)
(* The state machine: Parse calls on one root.                             *)
(***************************************************************************)
ArgVectors(V, n) == UNION { [1..k -> V] : k \in 0..n }

InitWith(scs, calls, len) ==
    /\ sc \in scs
    /\ cells = DefaultCells(Scenarios[sc].tree)
    /\ nilFlags = { id \in Nodes(Scenarios[sc].tree) : Scenarios[sc].tree.nodes[id].NilFlags }
    /\ hasState = FALSE
    /\ commandPath = << >>
    /\ Args = << >>
    /\ err = NoErr
    /\ args = << >>
    /\ prev = [cells |-> cells, nilFlags |-> nilFlags, hasState |-> FALSE,
               commandPath |-> << >>, Args |-> << >>]
    /\ ghost = Ghost("none", {}, {}, << >>, {})
    /\ budget = calls
    /\ maxLen = len
    /\ got = NoGet
    /\ selected = NoCmd
    /\ states = [id \in Nodes(Scenarios[sc].tree) |-> NoState]
    /\ ran = NoRun

\* no call of pkg/suggest
NoCall == [op |-> "none", target |-> << >>, candidates |-> << >>, maxResults |-> 0,
           b |-> << >>, result |-> << >>, score |-> Score(0, 1), distance |-> 0]

Init == InitWith(DOMAIN Scenarios \ (SeqScenarios \cup GetScenarios \cup RunScenarios),
                 1, MaxArgs)
        /\ sg = NoCall
InitSeq == InitWith(SeqScenarios, MaxCalls, MaxSeqArgs) /\ sg = NoCall

\* the state of the root as ParseFrom takes it
RootState == [cells |-> cells, nilFlags |-> nilFlags, hasState |-> hasState,
              commandPath |-> commandPath, Args |-> Args]

\* the root and the error after a call with the outcome r
Returns(r) ==
    /\ cells' = r.cells
    /\ nilFlags' = r.nilFlags
    /\ hasState' = r.hasState
    /\ commandPath' = r.commandPath
    /\ Args' = r.Args
    /\ err' = r.err
    /\ ghost' = r.ghost

Parse ==
    /\ budget > 0
    /\ \E a \in ArgVectors(Scenarios[sc].vocab, maxLen) :
         /\ Returns(ParseFrom(Tree, RootState, a))
         /\ args' = a
         /\ prev' = RootState
    /\ budget' = budget - 1
    /\ UNCHANGED <<sc, maxLen, got, sg, selected, states, ran>>

Next == Parse

Spec == Init /\ [][Next]_vars
SpecSeq == InitSeq /\ [][Next]_vars

(***************************************************************************)
(* Parse and GetFlag: a tree whose first and last command declare p with   *)
(* different types, under a root without a flag set.                       *)
(***************************************************************************)
\* the names and the types GetFlag is asked for
GetNames == {<<"p">>, <<"q">>, <<"z">>}
GetTypes == {"bool", "string", "int"}

\* the got of a GetFlag call that found out
Got(name, want, out) ==
    [op |-> "GetFlag", name |-> name, want |-> want, out |-> out,
     msg |-> getFlagPanic(Tree, commandPath, name, want, out)]

CallGetFlag ==
    /\ hasState
    /\ \E name \in GetNames, want \in GetTypes :
         got' = Got(name, want, GetFlag(Tree, commandPath, nilFlags, cells, name, want))
    /\ UNCHANGED <<sc, cells, nilFlags, hasState, commandPath, Args, err, args,
                   prev, ghost, budget, maxLen, sg, selected, states, ran>>

InitGet == InitWith(GetScenarios, 1, MaxGetArgs) /\ sg = NoCall

NextGet == Parse \/ CallGetFlag

SpecGet == InitGet /\ [][NextGet]_vars

(***************************************************************************)
(* The state machine of pkg/suggest: one call of FindSimilar or of         *)
(* calculateSimilarity on arguments drawn from the strings of its tests.   *)
(***************************************************************************)
sHel == <<"h","e","l">>
sHelp == <<"h","e","l","p">>
sHELLO == <<"H","e","l","l","o">>
sHello1 == <<"h","e","l","l","o","1">>
sWorld == <<"w","o","r","l","d">>
sXyz == <<"x","y","z">>

Targets == {sEmpty, sHel, sHello, sHELLO, sHello1, sHelp, sWorld, sXyz}
Candidates == {sHello, sHELLO, sHelp, sWorld, sHello1}

InitSuggest ==
    /\ InitWith({1}, 0, 0)
    /\ sg \in { [NoCall EXCEPT !.target = t, !.candidates = c, !.maxResults = m] :
                  t \in Targets, c \in ArgVectors(Candidates, MaxCandidates),
                  m \in (0 - 1)..MaxResults }

parseVars == <<sc, cells, nilFlags, hasState, commandPath, Args, err, args,
               prev, ghost, budget, maxLen, got, selected, states, ran>>

CallFindSimilar ==
    /\ sg.op = "none"
    /\ sg' = [sg EXCEPT !.op = "FindSimilar",
                        !.result = FindSimilar(sg.target, sg.candidates, sg.maxResults)]
    /\ UNCHANGED parseVars

CallCalculateSimilarity ==
    /\ sg.op = "none"
    /\ \E b \in Targets :
         sg' = [sg EXCEPT !.op = "calculateSimilarity", !.b = b,
                          !.score = calculateSimilarity(sg.target, b)]
    /\ UNCHANGED parseVars

NextSuggest == CallFindSimilar \/ CallCalculateSimilarity

SpecSuggest == InitSuggest /\ [][NextSuggest]_vars

(***************************************************************************)
(* Parse, Run and ParseAndRun calls on one root, in any order.             *)
(***************************************************************************)
MaxRunCalls == 3
MaxRunArgs == 2

\* the RunOptions a caller gives: nil, or streams it made in the fields it sets
RunOptionsSet ==
    { RunOptions(TRUE, NilStream, NilStream, NilStream),
      RunOptions(FALSE, NilStream, "out1", NilStream),
      RunOptions(FALSE, NilStream, "out2", "out2"),
      RunOptions(FALSE, "in1", "out1", "out1") }

\* what an Exec returns: nil or an error
ExecResults == {"ok", "exec"}

InitRun == InitWith(RunScenarios, MaxRunCalls, MaxRunArgs) /\ sg = NoCall

SelectedState == [cells |-> cells, nilFlags |-> nilFlags, selected |-> selected,
                  states |-> states]

\* the root after a Parse of src/parse.go on a with the outcome r
ReturnsSelected(r, a) ==
    /\ cells' = r.cells
    /\ nilFlags' = r.nilFlags
    /\ selected' = r.selected
    /\ err' = r.err
    /\ args' = a

\* the states and the record of a Run with the outcome o
ReturnsRun(o) ==
    /\ states' = o.states
    /\ ran' = o.ran

runFrame == <<sc, hasState, commandPath, Args, prev, ghost, maxLen, got, sg>>

\* Parse returned r
Parsed(r, a) ==
    /\ ReturnsSelected(r, a)
    /\ states' = r.states
    /\ ran' = NoRun

CallParse ==
    /\ budget > 0
    /\ \E a \in ArgVectors(Scenarios[sc].vocab, maxLen) :
         Parsed(ParseSelectedFrom(Tree, SelectedState, a), a)
    /\ budget' = budget - 1
    /\ UNCHANGED runFrame

CallRun ==
    /\ budget > 0
    /\ \E options \in RunOptionsSet, result \in ExecResults :
         ReturnsRun(RunFrom(Tree, selected, states, err, "Run", options, result))
    /\ budget' = budget - 1
    /\ UNCHANGED <<cells, nilFlags, selected, err, args>>
    /\ UNCHANGED runFrame

\* ParseAndRun after its Parse returned r
ParseAndRunFrom(T, r, options, result) ==
    IF r.err.kind # "ok"
    THEN [states |-> r.states, ran |-> Ran("ParseAndRun", options, NoCmd, NoStreams, r.err.kind)]
    ELSE RunFrom(T, r.selected, r.states, r.err, "ParseAndRun", options, result)

\* the Parse of ParseAndRun returned r
ParsedAndRun(r, a) ==
    /\ ReturnsSelected(r, a)
    /\ \E options \in RunOptionsSet, result \in ExecResults :
         ReturnsRun(ParseAndRunFrom(Tree, r, options, result))

CallParseAndRun ==
    /\ budget > 0
    /\ \E a \in ArgVectors(Scenarios[sc].vocab, maxLen) :
         ParsedAndRun(ParseSelectedFrom(Tree, SelectedState, a), a)
    /\ budget' = budget - 1
    /\ UNCHANGED runFrame

NextRun == CallParse \/ CallRun \/ CallParseAndRun

SpecRun == InitRun /\ [][NextRun]_vars

(***************************************************************************)
(* levenshteinDistance on every pair of words of at most MaxWord letters.  *)
(***************************************************************************)
MaxWord == 3
Alphabet == {"a", "b", "c"}
Words == ArgVectors(Alphabet, MaxWord)

InitDistance ==
    /\ InitWith({1}, 0, 0)
    /\ sg \in { [NoCall EXCEPT !.target = a, !.b = b] : a \in Words, b \in Words }

CallLevenshteinDistance ==
    /\ sg.op = "none"
    /\ sg' = [sg EXCEPT !.op = "levenshteinDistance",
                        !.distance = levenshteinDistance(sg.target, sg.b)]
    /\ UNCHANGED parseVars

NextDistance == CallLevenshteinDistance

SpecDistance == InitDistance /\ [][NextDistance]_vars

(***************************************************************************)
(* Properties                                                              *)
(***************************************************************************)
\* the tokens of the last call before and after the first "--"
FirstDelimiter == IF \E i \in 1..Len(args) : args[i] = DashDash
                  THEN CHOOSE i \in 1..Len(args) :
                         args[i] = DashDash /\ \A j \in 1..Len(args) : args[j] = DashDash => i <= j
                  ELSE Len(args) + 1
MainTokens == SubSeq(args, 1, FirstDelimiter - 1)
TailTokens == SubSeq(args, FirstDelimiter + 1, Len(args))

\* the indices of the tokens parsed as a flag or as the value of a flag
OptionIndices == UNION { u[1]..(u[1] + u[2] - 1) : u \in ghost.units }

\* toks without the tokens at the indices in drop
Keep(toks, drop) ==
    LET idx == SelectSeq([i \in 1..Len(toks) |-> i], LAMBDA i : i \notin drop)
    IN [k \in 1..Len(idx) |-> toks[idx[k]]]

\* C1: when Parse succeeds, State.Args is exactly the tokens before the
\* first "--" that neither named a command of the path nor were parsed as a
\* flag or a flag's value, in their order, followed by the tokens after the
\* first "--".
C1_LeftoverIsUnconsumed ==
    err.kind = "ok" =>
        Args = Keep(MainTokens, ghost.used \cup OptionIndices) \o TailTokens

\* the last call against r0, the outcome of the call without the "--" and
\* what follows it
SameButTail(r0) ==
    /\ err = r0.err
    /\ commandPath = r0.commandPath
    /\ cells = r0.cells
    /\ (ghost.used \cup OptionIndices) \subseteq 1..(FirstDelimiter - 1)
    /\ err.kind \in {"ok", "noexec"} => Args = r0.Args \o TailTokens

\* C2: the tokens after the first "--" change nothing but the end of
\* State.Args: the call returns the same error, resolves the same path and
\* leaves the same cells as the call with the tokens before the "--" alone,
\* none of them named a command or was parsed as a flag, and when Args is
\* written it is the Args of that call followed by these tokens.
C2_TailIsVerbatim ==
    FirstDelimiter <= Len(args) =>
        SameButTail(ParseFrom(Tree, prev, MainTokens))

\* C2 happens: a successful call whose tail holds a help spelling, a name of
\* a child and a flag, and whose tokens before the "--" set a cell
C2_Witness ==
    /\ err.kind = "ok"
    /\ cells # prev.cells
    /\ \E i, j \in (FirstDelimiter + 1)..Len(args) :
         /\ args[i] \in HelpTokens
         /\ args[j] = sAdd
    /\ commandPath = <<"todo">>

\* the name of the flag a flag token gives: without its minuses and without
\* what follows the first "="
OptionName(tok) ==
    LET body == SubSeq(tok, (IF tok[2] = "-" THEN 3 ELSE 2), Len(tok)) IN
    IF EqualsAt(body) = 0 THEN body ELSE SubSeq(body, 1, EqualsAt(body) - 1)

\* toks with the l tokens from index i on taken out
Without(toks, i, l) == SubSeq(toks, 1, i - 1) \o SubSeq(toks, i + l, Len(toks))

\* toks with the l tokens from index i on moved behind the first j of the others
MoveUnit(toks, i, l, j) ==
    SubSeq(Without(toks, i, l), 1, j) \o SubSeq(toks, i, i + l - 1)
        \o SubSeq(Without(toks, i, l), j + 1, Len(toks) - l)

\* moving the unit u behind the first j other tokens would part a flag of the
\* last call from its value
PartsAPair(u, j) ==
    \E w \in ghost.units :
        /\ w # u
        /\ w[2] = 2
        /\ j = (IF w[1] < u[1] THEN w[1] ELSE w[1] - u[2])

\* the outcome r of a call has the path, the cells and the Args of the last call
SameResolution(r) ==
    /\ r.err.kind = "ok"
    /\ r.commandPath = commandPath
    /\ r.cells = cells
    /\ r.Args = Args

\* C3: a call without "--" that resolved successfully resolves to the same
\* path, the same flag values and the same leftover arguments when one of its
\* flags (its token, or its token and value token together) stands at any
\* other place.  Stated for calls in which no flag occurs twice and no token
\* is both a command name and a flag's value.
C3_FlagsAnywhere ==
    ( /\ err.kind = "ok"
      /\ FirstDelimiter > Len(args)
      /\ ghost.used \cap OptionIndices = {}
      /\ \A u, w \in ghost.units : OptionName(args[u[1]]) = OptionName(args[w[1]]) => u = w )
    => \A u \in ghost.units : \A j \in 0..(Len(args) - u[2]) :
          ~PartsAPair(u, j) => SameResolution(ParseFrom(Tree, prev, MoveUnit(args, u[1], u[2], j)))

\* the flag names declared on the commands of the resolved path, and on any
\* command of the tree
PathNames == UNION { FlagNames(Tree, commandPath[i]) : i \in 1..Len(commandPath) }
TreeNames == UNION { FlagNames(Tree, id) : id \in Nodes(Tree) }

\* the indices of the tokens before "--" that have the shape of a flag
FlagShaped == { i \in 1..Len(MainTokens) :
                  Len(MainTokens[i]) > 1 /\ MainTokens[i][1] = "-" }

\* the call reached the parse of the flags
FlagPassRan == ghost.ran \in {"flags", "required", "args"}

\* GetFlag on the state the last call left finds a flag of this name
Readable(n) ==
    \E want \in {"bool", "string"} :
        GetFlag(Tree, commandPath, nilFlags, cells, n, want).kind = "value"

\* C4: in every call that reaches the parse of the flags, the names the
\* combined flag set accepts are exactly the names declared on the commands
\* of the resolved path: an undefined-flag error never names one of them, the
\* first flag token is rejected as undefined when its name is none of them
\* (declared elsewhere in the tree or nowhere; a name help or h that no
\* command declares is rejected with flag.ErrHelp), every flag parsed has one of
\* these names, and GetFlag finds a name exactly when it is one of them.
C4_VisibleIsPathUnion ==
    FlagPassRan =>
        /\ ghost.formal = PathNames
        /\ (err.kind = "flag" /\ err.why = "undefined") => err.tok \notin PathNames
        /\ \A i \in FlagShaped :
             ( /\ \A j \in FlagShaped : i <= j
               /\ OptionName(MainTokens[i]) \notin PathNames )
             => /\ err.kind = "flag"
                /\ err.why \in {"undefined", "badsyntax", "help"}
                /\ err.why = "undefined" => err.tok = OptionName(MainTokens[i])
                /\ err.why = "help" =>
                      OptionName(MainTokens[i]) \in {<<"h">>, <<"h","e","l","p">>} \ TreeNames
                /\ cells = prev.cells
        /\ \A u \in ghost.units : OptionName(args[u[1]]) \in PathNames
        /\ err.kind \in {"ok", "noexec", "missing"} => FlagShaped \subseteq OptionIndices
        /\ \A n \in TreeNames \cup {<<"z">>} : Readable(n) <=> n \in PathNames

\* C4 happens: below the root, a flag declared on another command of the tree
\* is rejected as undefined, while a flag of the root was parsed
C4_Witness ==
    /\ err.kind = "flag"
    /\ err.why = "undefined"
    /\ err.tok \in TreeNames \ PathNames
    /\ Len(commandPath) > 1
    /\ \E u \in ghost.units : OptionName(args[u[1]]) \in FlagNames(Tree, Tree.root)

\* the command of the resolved path nearest its end that declares n
Nearest(n) ==
    commandPath[CHOOSE i \in 1..Len(commandPath) :
                  /\ n \in FlagNames(Tree, commandPath[i])
                  /\ \A j \in (i + 1)..Len(commandPath) :
                       n \notin FlagNames(Tree, commandPath[j])]

\* the last flag of the name n the call parsed
LastUnit(n) ==
    CHOOSE u \in ghost.units :
        /\ OptionName(args[u[1]]) = n
        /\ \A w \in ghost.units : OptionName(args[w[1]]) = n => w[1] <= u[1]

\* the value the flag u gives to a flag of this kind
SuppliedValue(u, kind) ==
    LET tok == args[u[1]]
        body == SubSeq(tok, (IF tok[2] = "-" THEN 3 ELSE 2), Len(tok))
        text == IF EqualsAt(body) > 0 THEN SubSeq(body, EqualsAt(body) + 1, Len(body))
                ELSE IF u[2] = 2 THEN args[u[1] + 1]
                ELSE <<"t","r","u","e">>
    IN IF kind = "bool" THEN text \in BoolTrue ELSE text

\* the call ended at a flag of the name n whose text is no bool: Set has left
\* false in the cell
Rejected(n) == err.kind = "flag" /\ err.why = "badvalue" /\ err.tok = n

\* C5: a flag parsed by the call writes the cell of the declaration of its
\* name nearest the end of the resolved path and no other cell: every cell
\* the call changed is that cell of a parsed flag (or of the flag whose value
\* was rejected), that cell holds the value the last such flag gave (false
\* after a rejected value), the cells of the same name on the commands above
\* keep the value they had, and GetFlag returns the value of that same cell.
C5_NearestDeclarationWins ==
    FlagPassRan =>
        /\ \A k \in CellKeys(Tree) :
             cells[k] # prev.cells[k] =>
                /\ k[1] = Nearest(k[2])
                /\ \/ \E u \in ghost.units : OptionName(args[u[1]]) = k[2]
                   \/ Rejected(k[2])
        /\ \A u \in ghost.units :
             LET n == OptionName(args[u[1]])
                 kind == FlagDecl(Tree, Nearest(n), n).kind
             IN /\ cells[<<Nearest(n), n>>] =
                     (IF Rejected(n) THEN FALSE ELSE SuppliedValue(LastUnit(n), kind))
                /\ GetFlag(Tree, commandPath, nilFlags, cells, n, kind)
                     = [kind |-> "value", value |-> cells[<<Nearest(n), n>>],
                        node |-> Nearest(n)]

\* C5 happens: n is declared on todo and on add, the call resolved add and
\* parsed a flag n; the cell of add has the value, the cell of todo its old one
C5_Witness ==
    /\ err.kind = "ok"
    /\ commandPath = <<"todo", "add">>
    /\ \E u \in ghost.units : OptionName(args[u[1]]) = <<"n">>
    /\ cells[<<"add", <<"n">>>>] = sY
    /\ cells[<<"todo", <<"n">>>>] = sEmpty
    /\ GetFlag(Tree, commandPath, nilFlags, cells, <<"n">>, "string").value = sY

\* the required flags of the resolved path, from the root on, as the error
\* names them
RequiredOnPath == requiredNames(Tree, commandPath, 1)
RequiredFormatted == [k \in 1..Len(RequiredOnPath) |-> formatFlagName(RequiredOnPath[k])]

\* the names the last call reported as missing
Reported == IF err.kind = "missing" THEN { err.names[k] : k \in 1..Len(err.names) } ELSE {}

\* the call parsed a flag of the name n
Supplied(n) == \E u \in ghost.units : OptionName(args[u[1]]) = n

\* the cell of n the resolved path sees holds the default n was declared with
HoldsDeclaredDefault(n) ==
    cells[<<Nearest(n), n>>] = FlagDecl(Tree, Nearest(n), n).def

\* the call reached the check of the required flags and every required name
\* is a flag of the path
RequiredCheckRan == ghost.ran \in {"required", "args"} /\ err.kind # "internal"

\* C6: when the parse of the flags succeeded, the required flags that are
\* unset are reported in one error, in the order of the path from the root
\* and of the declarations, and no flag that was set is reported.  A flag
\* counts as unset when the call did not parse it and its cell holds its
\* declared default, and as set when the call parsed it and its cell holds
\* another value.
C6_MissingAggregated ==
    RequiredCheckRan =>
        /\ \A k \in 1..Len(RequiredOnPath) :
             /\ (~Supplied(RequiredOnPath[k]) /\ HoldsDeclaredDefault(RequiredOnPath[k]))
                   => RequiredFormatted[k] \in Reported
             /\ (Supplied(RequiredOnPath[k]) /\ ~HoldsDeclaredDefault(RequiredOnPath[k]))
                   => RequiredFormatted[k] \notin Reported
        /\ err.kind = "missing" =>
             err.names = SelectSeq(RequiredFormatted, LAMBDA x : x \in Reported)

\* C7: when the call parsed every required flag of the resolved path, it
\* returns no missing-flag error, whatever the values given; it succeeds and
\* GetFlag returns the value given.  Stated for calls in which no token is
\* both a command name and a flag's value.
C7_SuppliedIsNotMissing ==
    ( /\ RequiredCheckRan
      /\ ghost.used \cap OptionIndices = {}
      /\ Len(RequiredOnPath) > 0
      /\ \A k \in 1..Len(RequiredOnPath) : Supplied(RequiredOnPath[k]) )
    => /\ err.kind \in {"ok", "noexec"}
       /\ \A k \in 1..Len(RequiredOnPath) :
            LET n == RequiredOnPath[k]
                kind == FlagDecl(Tree, Nearest(n), n).kind
            IN GetFlag(Tree, commandPath, nilFlags, cells, n, kind).value
                 = SuppliedValue(LastUnit(n), kind)

\* C8: in a sequence of calls on one tree, a required flag of the resolved
\* path is reported missing exactly when its cell, after the parse of the
\* flags of this call, holds the default the flag was declared with.
C8_MissingIffDeclaredDefault ==
    RequiredCheckRan =>
        \A k \in 1..Len(RequiredOnPath) :
            RequiredFormatted[k] \in Reported <=> HoldsDeclaredDefault(RequiredOnPath[k])

\* the index of the first help spelling among the tokens before "--", or 0
FirstHelp ==
    IF \E i \in 1..Len(MainTokens) : MainTokens[i] \in HelpTokens
    THEN CHOOSE i \in 1..Len(MainTokens) :
           MainTokens[i] \in HelpTokens /\ \A j \in 1..(i - 1) : MainTokens[j] \notin HelpTokens
    ELSE 0

\* the call ended as the scan d of the tokens before the help spelling left it
HelpCarries(d) ==
    d.err.kind = "ok" =>
        /\ err.kind = "help" \/ (err.kind = "flag" /\ err.why = "help")
        /\ err.node = Last(d.chain)
        /\ commandPath = d.chain
        /\ ghost.used = d.used
        /\ cells = prev.cells

\* C9: a call whose tokens before "--" hold a help spelling ends with the
\* help signal of the command the tokens before the first such spelling
\* resolve to; the tokens after it name no command, set no flag and cause no
\* error.
C9_FirstHelpShortCircuits ==
    (ghost.ran \notin {"none", "validate"} /\ FirstHelp > 0) =>
        HelpCarries(Discover(Tree, SubSeq(MainTokens, 1, FirstHelp - 1), 1,
                             Tree.root, <<Tree.root>>, {}))

\* the indices of the tokens before "--" that do not start with "-" and named
\* no command
Unmatched == { i \in 1..Len(MainTokens) :
                 ~HasPrefix(MainTokens[i], Dash) /\ i \notin ghost.used }

\* the first of them
FirstUnmatched == CHOOSE i \in Unmatched : \A j \in Unmatched : i <= j

\* C10: in a call on a valid tree, the first token before "--" that does not
\* start with "-" and names no child of the command resolved so far makes the
\* call fail with an unknown-command error for this token and this command
\* when the command has children, with or without an Exec; when it has none
\* the call returns no unknown-command error and no token from this one on
\* names a command.  Without such a token there is no unknown-command error.
C10_UnmatchedToken ==
    ghost.ran \notin {"none", "validate"} =>
        IF Unmatched = {}
        THEN err.kind # "unknowncmd"
        ELSE /\ \A u \in ghost.used : u < FirstUnmatched
             /\ findSubCommand(Tree, Last(commandPath), MainTokens[FirstUnmatched]) = NoCmd
             /\ IF Len(Tree.nodes[Last(commandPath)].SubCommands) > 0
                THEN /\ err.kind = "unknowncmd"
                     /\ err.node = Last(commandPath)
                     /\ err.tok = MainTokens[FirstUnmatched]
                     /\ cells = prev.cells
                ELSE err.kind # "unknowncmd"

\* C10 happens: below the root, a command with children and an Exec meets a
\* token that names none of its children
C10_Witness ==
    /\ err.kind = "unknowncmd"
    /\ Len(commandPath) > 1
    /\ Tree.nodes[err.node].Exec
    /\ err.node = Last(commandPath)
    /\ Len(Tree.nodes[err.node].SubCommands) > 0

\* the names of the children of the command that returned the unknown-command
\* error, and the score of a name against the unknown token
SiblingNames ==
    { Tree.nodes[Tree.nodes[err.node].SubCommands[k]].Name :
        k \in 1..Len(Tree.nodes[err.node].SubCommands) }
ScoreOf(name) == calculateSimilarity(err.tok, name)

Qualifying == { i \in 1..Len(sg.candidates) :
                  ScoreGreater(calculateSimilarity(sg.target, sg.candidates[i]), threshold) }

\* how often a name is among the qualifying candidates, and in the result
TimesQualifying(n) == Cardinality({ i \in Qualifying : sg.candidates[i] = n })
TimesReturned(n) == Cardinality({ k \in 1..Len(sg.result) : sg.result[k] = n })

\* the name m comes before the name n: it scores more against the target, or
\* as much and is the smaller string
Before(m, n) ==
    \/ ScoreGreater(calculateSimilarity(sg.target, m), calculateSimilarity(sg.target, n))
    \/ /\ ScoreEqual(calculateSimilarity(sg.target, m), calculateSimilarity(sg.target, n))
       /\ StringLess(m, n)

\* C12: FindSimilar returns nothing for an empty target or a limit <= 0;
\* otherwise it returns min(limit, number of candidates that score above 0.5)
\* names, each as often at most as it qualifies, no later name comes before
\* an earlier one in the order (higher score first, of equal scores the
\* smaller name first), and a qualifying candidate is left out only when the
\* limit is reached and it does not come before the last name returned.
C12_FindSimilar ==
    sg.op = "FindSimilar" =>
        IF sg.target = << >> \/ sg.maxResults <= 0
        THEN sg.result = << >>
        ELSE /\ Len(sg.result) = Min(sg.maxResults, Cardinality(Qualifying))
             /\ \A k \in 1..Len(sg.result) :
                  /\ TimesReturned(sg.result[k]) <= TimesQualifying(sg.result[k])
                  /\ \A l \in (k + 1)..Len(sg.result) : ~Before(sg.result[l], sg.result[k])
             /\ \A i \in Qualifying :
                  TimesReturned(sg.candidates[i]) < TimesQualifying(sg.candidates[i])
                  => /\ Len(sg.result) = sg.maxResults
                     /\ ~Before(sg.candidates[i], sg.result[Len(sg.result)])

\* C12 happens: three candidates score 0.9; the two smaller names are
\* returned in the order of the names, not of the candidates
C12_Witness ==
    /\ sg.op = "FindSimilar"
    /\ sg.target = sHel
    /\ sg.candidates = <<sHelp, sHello1, sHello>>
    /\ sg.maxResults = 2
    /\ sg.result = <<sHello, sHello1>>

\* the edit distance of two strings by its recurrence
RECURSIVE EditDistance(_, _)
EditDistance(a, b) ==
    IF Len(a) = 0 THEN Len(b)
    ELSE IF Len(b) = 0 THEN Len(a)
    ELSE IF a[1] = b[1] THEN EditDistance(Tail(a), Tail(b))
    ELSE 1 + Min(EditDistance(Tail(a), b),
                 Min(EditDistance(a, Tail(b)), EditDistance(Tail(a), Tail(b))))

\* 1 - editDistance/max(len) of two different strings
DistanceScore(a, b) ==
    Score(Max(Len(a), Len(b)) - EditDistance(a, b), Max(Len(a), Len(b)))

\* C13: calculateSimilarity(a, b) is 1.0 when a and b are equal up to case,
\* 0.9 when either of two different strings is a prefix of the other up to
\* case, whichever is a and whichever is b, and 1 - editDistance/max(len)
\* of the lower-cased strings otherwise.
C13_PrefixEitherWay ==
    sg.op = "calculateSimilarity" =>
        ScoreEqual(sg.score,
                   IF ToLower(sg.target) = ToLower(sg.b) THEN Score(1, 1)
                   ELSE IF HasPrefix(ToLower(sg.b), ToLower(sg.target))
                           \/ HasPrefix(ToLower(sg.target), ToLower(sg.b))
                   THEN Score(9, 10)
                   ELSE DistanceScore(ToLower(sg.target), ToLower(sg.b)))

\* C13, amended: calculateSimilarity(a, b) is 1.0 when a and b are equal up
\* to case, 0.9 when a, the target, is a prefix of a different b, the
\* candidate, up to case, and 1 - editDistance/max(len) of the lower-cased
\* strings otherwise, also when b is a prefix of a.
C13_PrefixOfCandidate ==
    sg.op = "calculateSimilarity" =>
        ScoreEqual(sg.score,
                   IF ToLower(sg.target) = ToLower(sg.b) THEN Score(1, 1)
                   ELSE IF HasPrefix(ToLower(sg.b), ToLower(sg.target))
                   THEN Score(9, 10)
                   ELSE DistanceScore(ToLower(sg.target), ToLower(sg.b)))

\* C13 happens: the candidate hello is a prefix of the target hello1, and the
\* score is 1 - 1/6
C13_Witness ==
    /\ sg.op = "calculateSimilarity"
    /\ sg.target = sHello1
    /\ sg.b = sHello
    /\ ScoreEqual(sg.score, Score(5, 6))

\* the places of the resolved path whose command has a flag set that
\* declares the name GetFlag was asked for
Declaring == { i \in 1..Len(commandPath) :
                 /\ commandPath[i] \notin nilFlags
                 /\ got.name \in FlagNames(Tree, commandPath[i]) }
\* the one nearest the end of the path
Deciding == commandPath[CHOOSE i \in Declaring : \A j \in Declaring : j <= i]

InvalidTree ==
    \E id \in Nodes(Tree) :
        Tree.nodes[id].Name = << >> \/ \E k \in 1..Len(Tree.nodes[id].Name) :
                                          Tree.nodes[id].Name[k] = " "

UnregisteredRequired ==
    \E id \in Nodes(Tree) : \E k \in 1..Len(Tree.nodes[id].FlagsMetadata) :
        /\ Tree.nodes[id].FlagsMetadata[k].Required
        /\ Tree.nodes[id].FlagsMetadata[k].Name \notin TreeNames

\* C16: on a tree in which some command marks as required a name that no
\* flag set declares, every Parse returns the internal error, whatever the
\* args select or hold, and writes no cell.
C16_UnregisteredRequiredIsFatal ==
    (UnregisteredRequired /\ ghost.ran # "none") =>
        /\ err.kind = "internal"
        /\ cells = prev.cells

\* the tree with an Exec on every command
WithExec(T) ==
    [root |-> T.root,
     nodes |-> [id \in DOMAIN T.nodes |-> [T.nodes[id] EXCEPT !.Exec = TRUE]]]

\* the last call against r, the outcome of the same call on the tree with an
\* Exec on every command
SameButExec(r) ==
    /\ r.err.kind # "ok" => err = r.err
    /\ (r.err.kind = "ok" /\ Tree.nodes[Last(r.commandPath)].Exec) => err.kind = "ok"
    /\ (r.err.kind = "ok" /\ ~Tree.nodes[Last(r.commandPath)].Exec) =>
          /\ err.kind = "noexec"
          /\ err.names = [i \in 1..Len(commandPath) |-> Tree.nodes[commandPath[i]].Name]
    /\ commandPath = r.commandPath
    /\ cells = r.cells
    /\ Args = r.Args

UsedInOrder == SelectSeq([i \in 1..Len(args) |-> i], LAMBDA i : i \in ghost.used)

\* the subcommands of a command, as a set
Children(id) == { Tree.nodes[id].SubCommands[k] : k \in 1..Len(Tree.nodes[id].SubCommands) }

\* the root as it is before its first Parse, with the cells of now
Unparsed(st) == [st EXCEPT !.hasState = FALSE, !.commandPath = << >>, !.Args = << >>]

\* C18: after every Parse that passes validation, whatever the calls before
\* it, the command path starts with the root, every later command is a child
\* of the one before it and is the one the next command-naming token of this
\* call names, and the path is the one the same call gives on a root that was
\* never parsed.
C18_PathOfThisCall ==
    ghost.ran \notin {"none", "validate"} =>
        /\ Len(commandPath) = 1 + Len(UsedInOrder)
        /\ commandPath[1] = Tree.root
        /\ \A k \in 1..Len(UsedInOrder) :
             /\ commandPath[k + 1] \in Children(commandPath[k])
             /\ EqualFold(Tree.nodes[commandPath[k + 1]].Name, args[UsedInOrder[k]])
        /\ commandPath = ParseFrom(Tree, Unparsed(prev), args).commandPath

\* C18 happens: the call before resolved app hello, this call resolves app
C18_Witness ==
    /\ prev.commandPath = <<"app", "hello">>
    /\ ghost.ran \notin {"none", "validate"}
    /\ commandPath = <<"app">>
    /\ budget = 0

\* the root as the last call left it, with every cell back at its declared
\* default
CellsReset == [cells |-> DefaultCells(Tree), nilFlags |-> nilFlags,
               hasState |-> hasState, commandPath |-> commandPath, Args |-> Args]

\* the outcome r of a call is the outcome of the last call
SameOutcome(r) ==
    /\ r.err = err
    /\ r.commandPath = commandPath
    /\ r.Args = Args
    /\ r.cells = cells

\* C19: a call on a tree whose cells hold their defaults, repeated with the
\* same args on the root it left, the cells reset to their defaults in
\* between, returns the same error and leaves the same command path, the same
\* Args and the same cells.
C19_Idempotent ==
    (ghost.ran # "none" /\ prev.cells = DefaultCells(Tree)) =>
        SameOutcome(ParseFrom(Tree, CellsReset, args))

\* C19 happens: the first call made a flag set, set a cell, resolved a
\* subcommand and left an argument
C19_Witness ==
    /\ err.kind = "ok"
    /\ prev.cells = DefaultCells(Tree)
    /\ cells # DefaultCells(Tree)
    /\ Len(commandPath) > 1
    /\ Args # << >>
    /\ ParseFrom(Tree, CellsReset, args).Args = Args

\* a token of the call before "--" has the shape of a flag of the name n
Mentioned(n) == \E i \in FlagShaped : OptionName(MainTokens[i]) = n

\* the cell k is the one GetFlag reads for its name on the resolved path
Decides(k) ==
    /\ \E i \in 1..Len(commandPath) : commandPath[i] = k[1]
    /\ Nearest(k[2]) = k[1]

\* C20: a Parse call changes no cell whose name is not the name of a flag
\* token of its args before "--", and no cell of a command off the resolved
\* path or shadowed on it; a cell the call did not change, set by a call
\* before or not, is what GetFlag returns for its name wherever the resolved
\* path reads this cell.
C20_CellsKept ==
    ghost.ran # "none" =>
        \A k \in CellKeys(Tree) :
            /\ ~Mentioned(k[2]) => cells[k] = prev.cells[k]
            /\ (ghost.ran # "validate" /\ ~Decides(k)) => cells[k] = prev.cells[k]
            /\ (ghost.ran # "validate" /\ Decides(k) /\ ~Mentioned(k[2])) =>
                  GetFlag(Tree, commandPath, nilFlags, cells, k[2],
                          FlagDecl(Tree, k[1], k[2]).kind).value = prev.cells[k]

\* C20 happens: a call before set v of the root; this call resolves add and
\* sets n there: v is still set and read at add, n of the root is untouched
C20_Witness ==
    /\ args = <<sAdd, FlagEq(<<"n">>, sY)>>
    /\ Tree.root = "todo"
    /\ prev.cells[<<"todo", <<"v">>>>] = TRUE
    /\ err.kind = "ok"
    /\ cells[<<"add", <<"n">>>>] = sY
    /\ cells[<<"todo", <<"n">>>>] = sEmpty
    /\ GetFlag(Tree, commandPath, nilFlags, cells, <<"v">>, "bool").value = TRUE

(***************************************************************************)
(* The names validateCommands accepts.                                     *)
(***************************************************************************)
Whitespace == {" ", "\t", "\n", "\r"}

BadName(name) == name = << >> \/ \E k \in 1..Len(name) : name[k] \in Whitespace

\* the names from the root to node id, the name of id last
RECURSIVE PathTo(_, _)
PathTo(T, id) ==
    IF id = T.root THEN <<T.nodes[id].Name>>
    ELSE LET parent == CHOOSE p \in Nodes(T) :
                          \E i \in 1..Len(T.nodes[p].SubCommands) :
                              T.nodes[p].SubCommands[i] = id
         IN Append(PathTo(T, parent), T.nodes[id].Name)

\* the names the validation error carries: the path of an empty name's
\* parent, and the name that has the space
Identified == err.names \o (IF err.why = "spaces" THEN <<err.tok>> ELSE << >>)

\* C21: Parse returns the validation error if and only if some command of
\* the tree has a name that is empty or has a whitespace character (space,
\* tab, newline, carriage return) in it, and the error then names the path
\* from the root to the offending command (to its parent, when the command
\* has no name to add).
C21_ValidationIffBadName ==
    ghost.ran # "none" =>
        /\ (err.kind = "invalid") <=> (\E id \in Nodes(Tree) : BadName(Tree.nodes[id].Name))
        /\ err.kind = "invalid" =>
              /\ BadName(Tree.nodes[err.node].Name)
              /\ Identified = SelectSeq(PathTo(Tree, err.node), LAMBDA n : n # << >>)

(***************************************************************************)
(* The writes of the cells.  flag.Value.Set is called in parseOne and       *)
(* nowhere else: once for every flag parsed, and once more for a bool flag  *)
(* whose text was rejected.                                                 *)
(***************************************************************************)
\* how often the call wrote the cell k
Writes(k) ==
    IF ~FlagPassRan \/ ~Decides(k) THEN 0
    ELSE Cardinality({ u \in ghost.units : OptionName(args[u[1]]) = k[2] })
           + (IF Rejected(k[2]) THEN 1 ELSE 0)

\* the indices of the tokens parsed as the name of a flag
UnitHeads == { u[1] : u \in ghost.units }

\* the tokens before "--" that have the shape of a flag of the name n and are
\* not the value of the flag before them
Occurrences(n) ==
    { i \in FlagShaped : i \notin (OptionIndices \ UnitHeads) /\ OptionName(MainTokens[i]) = n }

\* C22 as stated: a call writes no cell outside the parse of the flags, and
\* writes every cell at most once, also when its flag occurs more than once
\* before "--".
C22_WrittenAtMostOnce ==
    ghost.ran # "none" =>
        /\ ~FlagPassRan => cells = prev.cells
        /\ \A k \in CellKeys(Tree) : Writes(k) <= 1

\* C22: a call writes no cell outside the parse of the flags; a cell the
\* parse did not write keeps its value; when the parse of the flags ends
\* without an error, the cell that decides a name was written once for every
\* occurrence of the name before "--"; a cell written holds what its last
\* write gave: the value of the last flag parsed, or false after a rejected
\* bool text.
C22_WrittenPerOccurrence ==
    ghost.ran # "none" =>
        /\ ~FlagPassRan => (cells = prev.cells /\ ghost.units = {})
        /\ \A k \in CellKeys(Tree) :
             /\ Writes(k) = 0 => cells[k] = prev.cells[k]
             /\ (FlagPassRan /\ ghost.ran # "flags" /\ Decides(k)) =>
                   Writes(k) = Cardinality(Occurrences(k[2]))
             /\ Writes(k) > 0 =>
                   cells[k] = (IF Rejected(k[2]) THEN FALSE
                               ELSE SuppliedValue(LastUnit(k[2]),
                                                  FlagDecl(Tree, k[1], k[2]).kind))

\* C22 happens: the call parsed two flags of one name that give different
\* values and returned nil; the cell has the second value
C22_Witness ==
    /\ err.kind = "ok"
    /\ \E k \in CellKeys(Tree) :
         /\ Writes(k) = 2
         /\ \E u \in ghost.units :
              /\ OptionName(args[u[1]]) = k[2]
              /\ SuppliedValue(u, FlagDecl(Tree, k[1], k[2]).kind) # cells[k]

\* C23: calculateSimilarity of the empty string and a string that is not
\* empty is 0.0, whichever of the two is the target and whichever the
\* candidate, so it is never above the threshold; of two empty strings it
\* is 1.0.
C23_EmptyScoresZero ==
    sg.op = "calculateSimilarity" =>
        /\ (sg.target = << >> /\ sg.b = << >>) => ScoreEqual(sg.score, Score(1, 1))
        /\ ((sg.target = << >>) # (sg.b = << >>)) =>
              /\ ScoreEqual(sg.score, Score(0, 1))
              /\ ~aboveThreshold(sg.score)

(***************************************************************************)
(* The edit distance by its definition: the least number of single         *)
(* insertions, deletions and substitutions that turn a into b.             *)
(***************************************************************************)
\* the words one insertion, one deletion or one substitution away from w
OneEdit(w) ==
    { Without(w, i, 1) : i \in 1..Len(w) }
      \cup UNION { { [w EXCEPT ![i] = c] : c \in Alphabet \ {w[i]} } : i \in 1..Len(w) }
      \cup { SubSeq(w, 1, i) \o <<c>> \o SubSeq(w, i + 1, Len(w)) :
               i \in 0..Len(w), c \in Alphabet }

\* the number of edits after which b is first among the words reached;
\* within: the words reached by k edits
RECURSIVE EditsFrom(_, _, _)
EditsFrom(within, b, k) ==
    IF b \in within THEN k
    ELSE EditsFrom(within \cup { v \in UNION { OneEdit(w) : w \in within } :
                                   Len(v) <= MaxWord }, b, k + 1)

\* C24: levenshteinDistance(a, b) is the least number of single insertions,
\* deletions and substitutions that turn a into b; it is 0 exactly when
\* a = b, the same for (b, a), and at most the length of the longer one.
C24_LevenshteinIsEditDistance ==
    sg.op = "levenshteinDistance" =>
        /\ sg.distance = EditsFrom({sg.target}, sg.b, 0)
        /\ (sg.distance = 0) <=> (sg.target = sg.b)
        /\ sg.distance = levenshteinDistance(sg.b, sg.target)
        /\ sg.distance <= Max(Len(sg.target), Len(sg.b))

\* C24 happens: from abc to cab no letter stays in its place, and two edits
\* (c put in front, c taken from the end) do where three substitutions would
C24_Witness ==
    /\ sg.op = "levenshteinDistance"
    /\ sg.target = <<"a", "b", "c">>
    /\ sg.b = <<"c", "a", "b">>
    /\ sg.distance = 2

(***************************************************************************)
(* Run after Parse (src/parse.go, src/run.go).  err is what the most       *)
(* recent Parse on the root returned, by itself or inside ParseAndRun.     *)
(***************************************************************************)
\* C25: a Run or ParseAndRun call invokes an Exec only if the most recent
\* Parse on the root returned nil; after a Parse that returned an error no
\* Exec is invoked.
C25_ExecOnlyAfterParseSucceeded ==
    ran.exec # NoCmd => err.kind = "ok"

\* the streams RunOptions stand for: the field, or the stream of the
\* process for a nil field and for nil options
Given(options) ==
    [Stdin |-> checkAndSetRunOptions(options).Stdin,
     Stdout |-> checkAndSetRunOptions(options).Stdout,
     Stderr |-> checkAndSetRunOptions(options).Stderr]

\* C30: the State an Exec gets from a Run call has the Stdin, Stdout and
\* Stderr of the RunOptions of this call, the streams of the process for
\* what the options leave nil, whatever the Run calls before were given.
C30_StreamsOfThisRun ==
    ran.exec # NoCmd => ran.saw = Given(ran.options)

(***************************************************************************)
(* The path and the Args a failed Parse leaves (part_002).                 *)
(***************************************************************************)
\* the elements of s are elements of t, in the order of t
RECURSIVE IsSubsequence(_, _)
IsSubsequence(s, t) ==
    IF s = << >> THEN TRUE
    ELSE IF t = << >> THEN FALSE
    ELSE IF Head(s) = Head(t) THEN IsSubsequence(Tail(s), Tail(t))
    ELSE IsSubsequence(s, Tail(t))

\* the call failed after it began with the tokens
FailedOnTokens == err.kind \in {"unknowncmd", "flag", "internal", "missing"}

\* C26: after a Parse that failed on its tokens, the command path and the
\* Args of the state of the root belong together: both are what the call
\* before left, or the Args too are of this call, made of tokens of its args.
C26_PathAndArgsAgree ==
    FailedOnTokens =>
        \/ prev.hasState /\ commandPath = prev.commandPath /\ Args = prev.Args
        \/ IsSubsequence(Args, args)

\* the error is flag.ErrHelp or wraps it: the help check returned it, or
\* ParseToEnd did for a flag named help or h that no flag set declares
IsErrHelp == err.kind = "help" \/ (err.kind = "flag" /\ err.why = "help")

\* C27: a Parse that returns the help signal or the unknown-command error
\* has written no cell, whatever flag tokens its args hold and wherever
\* they stand.
C27_HelpAndUnknownWriteNothing ==
    (IsErrHelp \/ err.kind = "unknowncmd") => cells = prev.cells

\* C28: in a Parse that returns nil every token before "--" has one role: no
\* token that named a command of the path is also a flag or the value of a
\* flag, and the tokens with neither role are the ones left in Args before
\* the tokens after "--".
C28_OneRolePerToken ==
    err.kind = "ok" =>
        /\ ghost.used \cap OptionIndices = {}
        /\ Len(Args) = Len(MainTokens) - Cardinality(ghost.used \cup OptionIndices)
                         + Len(TailTokens)

(***************************************************************************)
(* The failure conditions of a call, each looked at by itself on the tree, *)
(* the tokens before "--" and the cells the call found, and the first of   *)
(* them in the order: name, unknown command, help, flag error,             *)
(* unregistered required flag, missing required flag, no Exec.             *)
(***************************************************************************)
\* rq: what the check of the required flags finds on the chain
FirstOfRequired(chain, rq) ==
    IF rq.internal THEN "internal"
    ELSE IF Len(rq.missingFlags) > 0 THEN "missing"
    ELSE IF ~Tree.nodes[Last(chain)].Exec THEN "noexec"
    ELSE "ok"

\* p: what the parse of the flags of the chain returns
FirstOfFlags(chain, formal, p) ==
    IF p.err.kind # "ok" THEN "flag"
    ELSE FirstOfRequired(chain, checkRequired(formal, p.cells,
                                              requiredNames(Tree, chain, 1), << >>))

\* formal: the flags of the commands of the chain
FirstOfParse(chain, formal) ==
    FirstOfFlags(chain, formal, ParseToEnd(formal, prev.cells, MainTokens))

\* d: the commands the tokens name, and the token that names none
FirstOfTokens(d) ==
    IF d.err.kind # "ok" THEN "unknowncmd"
    ELSE IF \E i \in 1..Len(MainTokens) : MainTokens[i] \in HelpTokens THEN "help"
    ELSE FirstOfParse(d.chain,
                      combinedFlagsOf(Tree, d.chain, Len(d.chain),
                                      prev.nilFlags \ { d.chain[i] : i \in 2..Len(d.chain) },
                                      prev.cells, {}))

FirstCondition ==
    IF \E id \in Nodes(Tree) : BadName(Tree.nodes[id].Name) THEN "invalid"
    ELSE FirstOfTokens(Discover(Tree, MainTokens, 1, Tree.root, <<Tree.root>>, {}))

\* C29: of the failure conditions the tree and the args of a call meet, Parse
\* reports the first in the order invalid name, unknown command, help, flag
\* error (undefined flag or rejected value), unregistered required flag,
\* missing required flags, no Exec, wherever the tokens stand; it returns nil
\* when they meet none.
C29_FixedPrecedence ==
    ghost.ran # "none" => err.kind = FirstCondition

====
